---- MODULE Spec2Model ----
(***************************************************************************)
(* Compilation driver of the Jac toolchain: the program/module registry    *)
(* (JacProgram), the dual-program router (JacCompiler), the annex          *)
(* resolver (JacAnnexPass) and the tiered bytecode cache.                   *)
(*                                                                         *)
(* Paths and sources are sequences of one-character strings, so that       *)
(* endswith / startswith / normpath are computed as the code computes them. *)
(***************************************************************************)
EXTENDS Integers, Sequences, FiniteSets, TLC

VARIABLES
    files,   \* file system: normalized path -> source text
    progs,   \* program id -> JacProgram object (mod.main, mod.hub, errors_had, warnings_had)
    disk,    \* the shared DiskBytecodeCache: cache key -> stored bytes
    served,  \* history: <<program, path, minimal>> -> what get_bytecode returned last
    ncompiles, \* history: path -> number of compile() calls JacCompiler.get_bytecode made for it
    last,    \* record of the driver call made by the last step
    nops,    \* number of steps taken
    frames   \* program id -> the get_bytecode call in progress on it, if it is suspended

vars == <<files, progs, disk, served, ncompiles, last, nops, frames>>

\* Bound on the length of a run of cache lookups.
MaxOps == 3

\* Bound on the length of a run of direct driver calls.
MaxCalls == 2

\* Bound on the length of a run of lookups through the router.
MaxRouterCalls == 3

\* Bound on the length of a run of parse_str and other program operations.
MaxParseOps == 2

\* Bound on the length of a run of calls in a directory whose files vary.
MaxFileOps == 2

\* Bound on the length of a run of calls that are given a cancellation token.
MaxCancelCalls == 2

\* The latest moment, in constructed parsers and passes of a call, at which the
\* caller sets the call's cancellation token.
MaxCancelAt == 4

----------------------------------------------------------------------------
\* Strings as character sequences

Range(f) == {f[i] : i \in DOMAIN f}

StartsWith(s, p) == Len(s) >= Len(p) /\ SubSeq(s, 1, Len(p)) = p

EndsWith(s, x) == Len(s) >= Len(x) /\ SubSeq(s, Len(s) - Len(x) + 1, Len(s)) = x

os_sep == <<"/">>

RECURSIVE SplitSep(_, _, _)
\* str.split("/"): the components of s, `cur` being the component in progress
SplitSep(s, cur, acc) ==
    IF s = <<>> THEN Append(acc, cur)
    ELSE IF Head(s) = "/" THEN SplitSep(Tail(s), <<>>, Append(acc, cur))
    ELSE SplitSep(Tail(s), Append(cur, Head(s)), acc)

RECURSIVE NormComps(_, _, _)
\* posixpath.normpath's loop over the components
NormComps(comps, abs, acc) ==
    IF comps = <<>> THEN acc
    ELSE LET c == Head(comps) IN
         IF c = <<>> \/ c = <<".">> THEN NormComps(Tail(comps), abs, acc)
         ELSE IF c # <<".", ".">>
                 \/ (~abs /\ acc = <<>>)
                 \/ (acc # <<>> /\ acc[Len(acc)] = <<".", ".">>)
              THEN NormComps(Tail(comps), abs, Append(acc, c))
         ELSE IF acc # <<>> THEN NormComps(Tail(comps), abs, SubSeq(acc, 1, Len(acc) - 1))
         ELSE NormComps(Tail(comps), abs, acc)

RECURSIVE JoinSep(_)
JoinSep(comps) ==
    IF comps = <<>> THEN <<>>
    ELSE IF Len(comps) = 1 THEN Head(comps)
    ELSE Head(comps) \o os_sep \o JoinSep(Tail(comps))

\* os.path.normpath (POSIX)
normpath(path) ==
    IF path = <<>> THEN <<".">>
    ELSE LET abs == Head(path) = "/"
             body == JoinSep(NormComps(SplitSep(path, <<>>, <<>>), abs, <<>>))
         IN IF abs THEN os_sep \o body
            ELSE IF body = <<>> THEN <<".">> ELSE body

----------------------------------------------------------------------------
\* The paths and sources of the model

\* the toolchain's installation root, /j
jaclang_root == <<"/", "j">>

\* /j/m.jac : a standard-library module
PInt == <<"/", "j", "/", "m", ".", "j", "a", "c">>
\* /u/m.jac : a user module with the same file name
PUsr == <<"/", "u", "/", "m", ".", "j", "a", "c">>
\* /j/../u/m.jac : textually under the root, but the user module once normalized
PDot == <<"/", "j", "/", ".", ".", "/", "u", "/", "m", ".", "j", "a", "c">>
\* /u/m.impl.jac : the same-directory implementation annex of /u/m.jac
PImpl == <<"/", "u", "/", "m", ".", "i", "m", "p", "l", ".", "j", "a", "c">>
\* a foreign-language and a scripting-language file beside the user module
PPy == <<"/", "u", "/", "m", ".", "p", "y">>
PJs == <<"/", "u", "/", "m", ".", "j", "s">>
\* /u/m.test.jac : the same-directory test annex of /u/m.jac
PTest == <<"/", "u", "/", "m", ".", "t", "e", "s", "t", ".", "j", "a", "c">>
\* /u/g.jac : a path at which there is no file
PGone == <<"/", "u", "/", "g", ".", "j", "a", "c">>

\* the paths driver calls are made with
Paths == {PInt, PUsr, PDot}

\* the source files of the two modules, by their normalized paths
Editable == {PInt, PUsr}

\* the paths parse_str is called with
ParsePaths == {PInt, PUsr, PPy, PJs, PImpl}

\* Source texts: two well-formed versions and one with a malformed statement.
Sources == {"v1", "v2", "err"}

\* the content of a file that exists and cannot be read or decoded
Unreadable == "unreadable"

UserProgs == {"P1", "P2"}
ProgIds == UserProgs \cup {"INT"}

None == [tag |-> "None"]
Raised == [tag |-> "raise"]

----------------------------------------------------------------------------
\* Artifacts: code objects and their marshalled bytes

\* the code object PyBytecodeGenPass compiles for a module
CodeObj(path, src, minimal) == [tag |-> "code", path |-> path, src |-> src, minimal |-> minimal]

marshal_dumps(code) == [tag |-> "bytes", of |-> code]

\* marshal.loads raises on bytes that are not a marshalled code object
marshal_loads(b) == IF b.of.tag = "code" THEN b.of ELSE Raised

\* bytes that do not decode, and a value that is not bytes at all
GarbageBytes == [tag |-> "bytes", of |-> [tag |-> "garbage"]]
NotBytes == [tag |-> "obj", of |-> [tag |-> "garbage"]]

isinstance_bytes(x) == x.tag = "bytes"

\* Python truthiness of an artifact slot
Truthy(x) == x # None

----------------------------------------------------------------------------
\* The disk tier (jaclang.pycore.bccache)

\* CacheKey.for_source
CacheKey_for_source(path, minimal) == [source_path |-> normpath(path), minimal |-> minimal]

\* the entry a key addresses: path, mode and the content the source has now
DiskSlot(key) == [source_path |-> key.source_path, minimal |-> key.minimal,
                  src |-> files[key.source_path]]

\* BytecodeCache.get: the decoded entry; a missing or undecodable entry is a miss
BytecodeCache_get(d, key) ==
    IF DiskSlot(key) \in DOMAIN d /\ marshal_loads(d[DiskSlot(key)]) # Raised
    THEN marshal_loads(d[DiskSlot(key)])
    ELSE None

\* BytecodeCache.put
BytecodeCache_put(d, key, bytes) == (DiskSlot(key) :> bytes) @@ d

----------------------------------------------------------------------------
\* Modules, programs, diagnostics

EmptyHub == [x \in {} |-> None]

StubMain == [stub_only |-> TRUE, path |-> <<>>, src |-> ""]

\* JacProgram.__init__
NewProgram == [built |-> TRUE, main |-> StubMain, hub |-> EmptyHub,
               errors_had |-> <<>>, warnings_had |-> <<>>]

\* the router's internal program before its first use
Unbuilt == [NewProgram EXCEPT !.built = FALSE]

Alert(sev, path) == [sev |-> sev, path |-> path]

IsAnnexPath(path) ==
    \/ EndsWith(path, <<".", "i", "m", "p", "l", ".", "j", "a", "c">>)
    \/ EndsWith(path, <<".", "t", "e", "s", "t", ".", "j", "a", "c">>)

\* the Module a front-end returns for a source
NewModule(path, src, had_error) ==
    [path |-> path, src |-> src, stub_only |-> FALSE, has_syntax_errors |-> had_error,
     annexable_by |-> IsAnnexPath(path), impl_mod |-> <<>>, test_mod |-> <<>>,
     linked |-> FALSE, py_bytecode |-> None]

\* the front-end's error list is non-empty for a malformed source
FrontEndErrors(src) == src = "err"

\* read_file_with_encoding returns the text of the file
read_file_with_encoding(path) == files[normpath(path)]

\* read_file_with_encoding raises for a file that is missing or cannot be decoded
Readable(path) == normpath(path) \in DOMAIN files /\ files[normpath(path)] # Unreadable

\* a cancellation token: a threading.Event the caller sets once `set_after` parsers
\* and passes of the call it was given to have been constructed
Token(set_after) == [tag |-> "Event", set_after |-> set_after]

\* cancel_token.is_set() when `now` parsers and passes of the call have been constructed
is_set(cancel_token, now) == cancel_token # None /\ cancel_token.set_after <= now

\* a step of a call: a file read, a front-end or a pass constructed on a module, with
\* the cancel_token argument its constructor was given
Ev(ev, name, path) == [ev |-> ev, name |-> name, path |-> path, tok |-> None]

\* the effect of one pass on the module it runs on
PassEffect(mod, pass) ==
    IF pass = "PyJacAstLinkPass" THEN [mod EXCEPT !.linked = TRUE]
    ELSE IF pass = "PyBytecodeGenPass"
    THEN [mod EXCEPT !.py_bytecode = marshal_dumps(CodeObj(mod.path, mod.src, ~mod.linked))]
    ELSE mod

----------------------------------------------------------------------------
\* Pass schedules

\* program.py
get_symtab_ir_sched == <<"SymTabBuildPass", "DeclImplMatchPass">>

get_ir_gen_sched ==
    <<"SymTabBuildPass", "DeclImplMatchPass", "SemanticAnalysisPass",
      "SemDefMatchPass", "CFGBuildPass">>

get_type_check_sched == <<"TypeCheckPass">>

get_py_code_gen == <<"EsastGenPass", "PyastGenPass", "PyJacAstLinkPass", "PyBytecodeGenPass">>

\* a minimal schedule that analyses before declarations and implementations are matched
get_minimal_ir_gen_sched_unmatched ==
    <<"SymTabBuildPass", "SemanticAnalysisPass", "DeclImplMatchPass">>

get_minimal_ir_gen_sched == <<"SymTabBuildPass", "DeclImplMatchPass", "SemanticAnalysisPass">>

get_minimal_py_code_gen == <<"PyastGenPass", "PyBytecodeGenPass">>

\* compiler.py
compiler_get_symtab_ir_sched == <<"SymTabBuildPass", "DeclImplMatchPass">>

compiler_get_ir_gen_sched ==
    <<"SymTabBuildPass", "DeclImplMatchPass", "SemanticAnalysisPass",
      "SemDefMatchPass", "CFGBuildPass", "CatchBreaksPass", "FixSEBreaksPass",
      "FixDynBreaksPass">>

compiler_get_type_check_sched == <<"TypeCheckPass">>

compiler_get_py_code_gen ==
    <<"EsastGenPass", "PyastGenPass", "PyJacAstLinkPass", "PyBytecodeGenPass">>

compiler_get_minimal_ir_gen_sched ==
    <<"SymTabBuildPass", "DeclImplMatchPass", "SemanticAnalysisPass">>

compiler_get_minimal_py_code_gen == <<"PyastGenPass", "PyBytecodeGenPass">>

\* list.insert(i, x), i counted from 0
ListInsert(l, i, x) == SubSeq(l, 1, i) \o <<x>> \o SubSeq(l, i + 1, Len(l))

\* the combinations of compile()'s options
Flags == [no_cgen : BOOLEAN, type_check : BOOLEAN, symtab_ir_only : BOOLEAN, minimal : BOOLEAN]

DefaultFlags == [no_cgen |-> FALSE, type_check |-> FALSE, symtab_ir_only |-> FALSE,
                 minimal |-> FALSE]

\* a compilation in progress: the owning program, the module, the passes run so far
\* and the cancel_token handed to run_schedule
Ctx(prog, mod, log, raised) ==
    [prog |-> prog, mod |-> mod, log |-> log, raised |-> raised, tok |-> None]

RECURSIVE run_schedule(_, _)
\* run_schedule: every pass of the list is constructed, in order, on the module of
\* the context and with the token of the context; a pass constructed after its token
\* was set returns early
run_schedule(ctx, passes) ==
    IF passes = <<>> THEN ctx
    ELSE run_schedule(
            [ctx EXCEPT !.mod = IF is_set(ctx.tok, Len(ctx.log)) THEN @
                                ELSE PassEffect(@, Head(passes)),
                        !.log = Append(@, [Ev("pass", Head(passes), ctx.mod.path)
                                              EXCEPT !.tok = ctx.tok])],
            Tail(passes))

----------------------------------------------------------------------------
\* Front-end dispatch and the annex resolver

\* a dispatch that knows no scripting-language extension
FrontEndFor_no_script(file_path) ==
    IF EndsWith(file_path, <<".", "p", "y">>) \/ EndsWith(file_path, <<".", "p", "y", "i">>)
    THEN "PyastBuildPass"
    ELSE "JacParser"

\* the front-end parse_str selects for a path
FrontEndFor(file_path) ==
    IF EndsWith(file_path, <<".", "p", "y">>) \/ EndsWith(file_path, <<".", "p", "y", "i">>)
    THEN "PyastBuildPass"
    ELSE IF \/ EndsWith(file_path, <<".", "j", "s">>)
            \/ EndsWith(file_path, <<".", "t", "s">>)
            \/ EndsWith(file_path, <<".", "j", "s", "x">>)
            \/ EndsWith(file_path, <<".", "t", "s", "x">>)
    THEN "TypeScriptParser"
    ELSE "JacParser"

\* the path without its last extension
StripExt(path) ==
    IF \E i \in 1..Len(path) : path[i] = "."
    THEN SubSeq(path, 1, (CHOOSE i \in 1..Len(path) :
                            /\ path[i] = "."
                            /\ \A j \in (i + 1)..Len(path) : path[j] # ".") - 1)
    ELSE path

\* discover_annex_files: the same-directory file <base><suffix> of <base>.<ext>, if it exists
discover_annex_files(mod_path, suffix) ==
    IF normpath(StripExt(mod_path) \o suffix) \in DOMAIN files
    THEN <<StripExt(mod_path) \o suffix>>
    ELSE <<>>

ImplSuffix == <<".", "i", "m", "p", "l", ".", "j", "a", "c">>
TestSuffix == <<".", "t", "e", "s", "t", ".", "j", "a", "c">>

\* annexes compiled like any other module
AnnexFlags_default == DefaultFlags

AnnexFlags == [no_cgen |-> TRUE, type_check |-> FALSE, symtab_ir_only |-> FALSE,
               minimal |-> TRUE]

RECURSIVE JacProgram_compile(_, _, _, _, _)

\* an attachment that puts every annex on the implementation list
attach_annex_one_list(ctx, r, kind) ==
    Ctx(r.prog,
        IF r.raised THEN ctx.mod ELSE [ctx.mod EXCEPT !.impl_mod = Append(@, r.mod)],
        ctx.log \o r.log,
        ctx.raised \/ r.raised)

\* the base module's context once an annex has been compiled: `r` is the annex's
attach_annex(ctx, r, kind) ==
    Ctx(r.prog,
        IF r.raised THEN ctx.mod
        ELSE IF kind = "impl" THEN [ctx.mod EXCEPT !.impl_mod = Append(@, r.mod)]
        ELSE [ctx.mod EXCEPT !.test_mod = Append(@, r.mod)],
        ctx.log \o r.log,
        ctx.raised \/ r.raised)

RECURSIVE load_annexes(_, _, _)
\* JacAnnexPass._load_annexes for one suffix: compile each discovered file on the
\* program and append the module to the base module's list
load_annexes(ctx, paths, kind) ==
    IF paths = <<>> \/ ctx.raised THEN ctx
    ELSE load_annexes(
            attach_annex(ctx, JacProgram_compile(ctx.prog, Head(paths), None, AnnexFlags, None),
                         kind),
            Tail(paths), kind)

\* the pass is logged when it is constructed
annex_enter(ctx) == [ctx EXCEPT !.log = Append(@, Ev("pass", "JacAnnexPass", ctx.mod.path))]

\* a resolver that loads annexes for every module it is given
JacAnnexPass_unguarded(ctx) ==
    load_annexes(
       load_annexes(annex_enter(ctx), discover_annex_files(ctx.mod.path, ImplSuffix),
                    "impl"),
       discover_annex_files(ctx.mod.path, TestSuffix), "test")

\* JacAnnexPass.transform
JacAnnexPass(ctx) ==
    IF \/ ctx.mod.stub_only
       \/ ~EndsWith(ctx.mod.path, <<".", "j", "a", "c">>)
       \/ ctx.mod.annexable_by
    THEN annex_enter(ctx)
    ELSE load_annexes(
            load_annexes(annex_enter(ctx), discover_annex_files(ctx.mod.path, ImplSuffix),
                         "impl"),
            discover_annex_files(ctx.mod.path, TestSuffix), "test")

\* the hub entry of a registered module follows the module object, which the
\* passes mutate in place
Publish(ctx) ==
    IF ctx.mod.has_syntax_errors \/ ctx.raised THEN ctx
    ELSE [ctx EXCEPT !.prog.hub = (ctx.mod.path :> ctx.mod) @@ @]

\* parse_str, the front-end: the module it returns and the error it reports
parse_front(prog, source_str, file_path) ==
    IF FrontEndFor(file_path) = "PyastBuildPass" /\ FrontEndErrors(source_str)
    THEN \* py_ast.parse raises on a malformed source
         Ctx(prog, NewModule(file_path, source_str, TRUE),
             <<Ev("parse", "py_ast.parse", file_path)>>, TRUE)
    ELSE Ctx(IF FrontEndErrors(source_str)
             THEN [prog EXCEPT !.errors_had = Append(@, Alert("error", file_path))]
             ELSE prog,
             NewModule(file_path, source_str, FrontEndErrors(source_str)),
             <<Ev("parse", FrontEndFor(file_path), file_path)>>, FALSE)

\* parse_str that adopts every parsed module as the main module
parse_register_always_adopt(ctx) ==
    [ctx EXCEPT !.prog =
        [@ EXCEPT !.main = [stub_only |-> FALSE, path |-> ctx.mod.path, src |-> ctx.mod.src],
                  !.hub = (ctx.mod.path :> ctx.mod)
                          @@ (IF ctx.prog.main.stub_only THEN EmptyHub ELSE @)]]

\* parse_str: adoption of the main module and insertion into the hub
parse_register(ctx) ==
    [ctx EXCEPT !.prog =
        [@ EXCEPT !.main = IF @.stub_only
                           THEN [stub_only |-> FALSE, path |-> ctx.mod.path, src |-> ctx.mod.src]
                           ELSE @,
                  !.hub = (ctx.mod.path :> ctx.mod)
                          @@ (IF ctx.prog.main.stub_only THEN EmptyHub ELSE @)]]

\* parse_str that registers the module and skips the annex pass
parse_finish_no_annex(ctx) ==
    IF ctx.raised \/ ctx.mod.has_syntax_errors THEN ctx
    ELSE Publish(parse_register(ctx))

\* parse_str that registers the module whatever the front-end reported
parse_finish_no_early_return(ctx) ==
    IF ctx.raised THEN ctx
    ELSE [Publish(JacAnnexPass(parse_register(ctx))) EXCEPT !.prog.hub =
             (ctx.mod.path :> ctx.mod) @@ @]

\* the module parse_str registered stays in the hub, with what the resolver attached
\* to it, when the resolver raises
Republish(ctx) == [ctx EXCEPT !.prog.hub = (ctx.mod.path :> ctx.mod) @@ @]

\* parse_str after the front-end: return at once on an error, else register and annex
parse_finish(ctx) ==
    IF ctx.raised \/ ctx.mod.has_syntax_errors THEN ctx
    ELSE Republish(JacAnnexPass(parse_register(ctx)))

\* parse_str hands its cancel_token to the foreign-language importer and to the
\* scripting-language parser, and constructs the native parser without it
front_token(ctx, cancel_token) ==
    IF ctx.log[1].name \in {"PyastBuildPass", "TypeScriptParser"}
    THEN [ctx EXCEPT !.log[1].tok = cancel_token]
    ELSE ctx

\* JacProgram.parse_str
JacProgram_parse_str(prog, source_str, file_path, cancel_token) ==
    parse_finish(front_token(parse_front(prog, source_str, file_path), cancel_token))

----------------------------------------------------------------------------
\* JacProgram.compile, stage by stage

\* a str argument, as opposed to None
Str(val) == [tag |-> "str", val |-> val]

\* Python truthiness of an optional string: None and the empty string are false
str_truthy(x) == x # None /\ x.val # ""

\* the file is read before it is parsed
log_read(ctx, file_path) == [ctx EXCEPT !.log = <<Ev("read", "", file_path)>> \o @]

\* a compile() that turns a failed read into a diagnostic of the program
read_failed_reported(prog, file_path) ==
    Ctx([prog EXCEPT !.errors_had = Append(@, Alert("error", file_path))],
        NewModule(file_path, "", TRUE), <<Ev("read", "", file_path)>>, TRUE)

\* compile() when the reader raises: nothing was parsed
read_failed(prog, file_path) ==
    Ctx(prog, NewModule(file_path, "", TRUE), <<Ev("read", "", file_path)>>, TRUE)

\* compile() passes its cancel_token to every run_schedule call
with_token(ctx, cancel_token) == [ctx EXCEPT !.tok = cancel_token]

\* the IR schedule selected by symtab_ir_only and minimal
compile_ir(ctx, fl) ==
    IF ctx.raised THEN ctx
    ELSE IF fl.symtab_ir_only THEN run_schedule(ctx, get_symtab_ir_sched)
    ELSE IF fl.minimal THEN run_schedule(ctx, get_minimal_ir_gen_sched)
    ELSE run_schedule(ctx, get_ir_gen_sched)

\* a type-checking stage that does not look at minimal
compile_type_check_in_minimal(ctx, fl) ==
    IF ~ctx.raised /\ fl.type_check
    THEN run_schedule(ctx, get_type_check_sched) ELSE ctx

\* the type-checking schedule
compile_type_check(ctx, fl) ==
    IF ~ctx.raised /\ fl.type_check /\ ~fl.minimal
    THEN run_schedule(ctx, get_type_check_sched) ELSE ctx

\* the code-generation schedule, with the three fixup passes inserted in front
codegen_sched(fl) ==
    ListInsert(
      ListInsert(
        ListInsert(IF fl.minimal THEN get_minimal_py_code_gen ELSE get_py_code_gen,
                   0, "CatchBreaksPass"),
        1, "FixDynBreaksPass"),
      2, "FixSEBreaksPass")

\* code generation with the no_cgen test inverted
compile_codegen_inverted(ctx, fl) ==
    IF ~ctx.raised /\ ~ctx.mod.has_syntax_errors /\ fl.no_cgen
    THEN run_schedule(ctx, codegen_sched(fl)) ELSE ctx

\* code generation that does not look at the syntax-error flag
compile_codegen_unguarded(ctx, fl) ==
    IF ~ctx.raised /\ ~fl.no_cgen
    THEN run_schedule(ctx, codegen_sched(fl)) ELSE ctx

\* code generation, skipped for a module with syntax errors and under no_cgen
compile_codegen(ctx, fl) ==
    IF ~ctx.raised /\ ~ctx.mod.has_syntax_errors /\ ~fl.no_cgen
    THEN run_schedule(ctx, codegen_sched(fl)) ELSE ctx

\* JacProgram.compile
JacProgram_compile(prog, file_path, use_str, fl, cancel_token) ==
    Publish(
      compile_codegen(
        compile_type_check(
          compile_ir(
            with_token(
              IF str_truthy(use_str)
              THEN JacProgram_parse_str(prog, use_str.val, file_path, cancel_token)
              ELSE IF Readable(file_path)
              THEN log_read(JacProgram_parse_str(prog, read_file_with_encoding(file_path),
                                                 file_path, cancel_token),
                            file_path)
              ELSE read_failed(prog, file_path),
              cancel_token),
            fl),
          fl),
        fl))

\* the pass JacProgram.build runs after compile
build_finish(ctx) ==
    IF ctx.raised THEN ctx
    ELSE [ctx EXCEPT !.log = Append(@, Ev("pass", "SemanticAnalysisPass", ctx.mod.path))]

\* JacProgram.build
JacProgram_build(prog, file_path, type_check) ==
    build_finish(
      JacProgram_compile(prog, file_path, None,
                         [DefaultFlags EXCEPT !.type_check = type_check], None))

----------------------------------------------------------------------------
\* JacProgram.get_bytecode

\* the outcome of a get_bytecode call
GbResult(prog, d, ret, tiers, log, mod) ==
    [prog |-> prog, disk |-> d, ret |-> ret, tiers |-> tiers, log |-> log, mod |-> mod]

\* tier 1 finds a populated artifact slot
hub_hit(prog, full_target) ==
    full_target \in DOMAIN prog.hub /\ Truthy(prog.hub[full_target].py_bytecode)

\* what tier 1 returns for the slot it found
hub_return(codeobj) == IF isinstance_bytes(codeobj) THEN marshal_loads(codeobj) ELSE None

\* tier 3 that stores the artifact and forgets to hand it back
gb_store_noreturn(result, d, cache_key) ==
    IF result.raised
    THEN GbResult(result.prog, d, Raised, <<"hub", "disk", "compile">>, result.log, None)
    ELSE IF Truthy(result.mod.py_bytecode)
    THEN GbResult(result.prog, BytecodeCache_put(d, cache_key, result.mod.py_bytecode),
                  None, <<"hub", "disk", "compile", "put", "return">>, result.log,
                  result.mod)
    ELSE GbResult(result.prog, d, None, <<"hub", "disk", "compile", "return">>,
                  result.log, result.mod)

\* tier 3 that returns the artifact without storing it
gb_store_noput(result, d, cache_key) ==
    IF result.raised
    THEN GbResult(result.prog, d, Raised, <<"hub", "disk", "compile">>, result.log, None)
    ELSE IF Truthy(result.mod.py_bytecode)
    THEN GbResult(result.prog, d, marshal_loads(result.mod.py_bytecode),
                  <<"hub", "disk", "compile", "return">>, result.log, result.mod)
    ELSE GbResult(result.prog, d, None, <<"hub", "disk", "compile", "return">>,
                  result.log, result.mod)

\* tier 3 after compile(): store the artifact, if there is one, and decode it
gb_store(result, d, cache_key) ==
    IF result.raised
    THEN GbResult(result.prog, d, Raised, <<"hub", "disk", "compile">>, result.log, None)
    ELSE IF Truthy(result.mod.py_bytecode)
    THEN GbResult(result.prog, BytecodeCache_put(d, cache_key, result.mod.py_bytecode),
                  marshal_loads(result.mod.py_bytecode),
                  <<"hub", "disk", "compile", "put", "return">>, result.log, result.mod)
    ELSE GbResult(result.prog, d, None, <<"hub", "disk", "compile", "return">>,
                  result.log, result.mod)

\* a lookup that consults the disk tier before the registry
get_bytecode_disk_first(prog, d, full_target, minimal) ==
    IF BytecodeCache_get(d, CacheKey_for_source(full_target, minimal)) # None
    THEN GbResult(prog, d, BytecodeCache_get(d, CacheKey_for_source(full_target, minimal)),
                  <<"disk", "return">>, <<>>, None)
    ELSE IF hub_hit(prog, full_target)
    THEN GbResult(prog, d, hub_return(prog.hub[full_target].py_bytecode),
                  <<"disk", "hub", "return">>, <<>>, None)
    ELSE gb_store(JacProgram_compile(prog, full_target, None,
                                     [DefaultFlags EXCEPT !.minimal = minimal], None),
                  d, CacheKey_for_source(full_target, minimal))

\* a lookup that skips the disk tier and compiles whenever the registry misses
get_bytecode_no_disk_read(prog, d, full_target, minimal) ==
    IF hub_hit(prog, full_target)
    THEN GbResult(prog, d, hub_return(prog.hub[full_target].py_bytecode),
                  <<"hub", "return">>, <<>>, None)
    ELSE gb_store(JacProgram_compile(prog, full_target, None,
                                     [DefaultFlags EXCEPT !.minimal = minimal], None),
                  d, CacheKey_for_source(full_target, minimal))

\* JacProgram.get_bytecode
JacProgram_get_bytecode(prog, d, full_target, minimal) ==
    IF hub_hit(prog, full_target)
    THEN GbResult(prog, d, hub_return(prog.hub[full_target].py_bytecode),
                  <<"hub", "return">>, <<>>, None)
    ELSE IF BytecodeCache_get(d, CacheKey_for_source(full_target, minimal)) # None
    THEN GbResult(prog, d, BytecodeCache_get(d, CacheKey_for_source(full_target, minimal)),
                  <<"hub", "disk", "return">>, <<>>, None)
    ELSE gb_store(JacProgram_compile(prog, full_target, None,
                                     [DefaultFlags EXCEPT !.minimal = minimal], None),
                  d, CacheKey_for_source(full_target, minimal))

\* clear_type_system that never touches the hub
clear_type_system_types_only(prog, clear_hub) == prog

\* clear_type_system that also empties the diagnostic lists
clear_type_system_resets_diagnostics(prog, clear_hub) ==
    [(IF clear_hub THEN [prog EXCEPT !.hub = EmptyHub] ELSE prog)
        EXCEPT !.errors_had = <<>>, !.warnings_had = <<>>]

\* JacProgram.clear_type_system
clear_type_system(prog, clear_hub) ==
    IF clear_hub THEN [prog EXCEPT !.hub = EmptyHub] ELSE prog

----------------------------------------------------------------------------
\* JacCompiler: the dual-program router

\* a router that compares the path as given, without normalizing it
resolve_program_raw(file_path, target_program) ==
    IF StartsWith(file_path, jaclang_root \o os_sep) THEN "INT" ELSE target_program

\* a router that always uses the caller's program
resolve_program_unrouted(file_path, target_program) == target_program

\* JacCompiler._resolve_program
resolve_program(file_path, target_program) ==
    IF StartsWith(normpath(file_path), jaclang_root \o os_sep) THEN "INT" ELSE target_program

\* JacCompiler.internal_program: constructed on first access
internal_program(ps, actual) ==
    IF actual = "INT" /\ ~ps["INT"].built THEN [ps EXCEPT !["INT"] = NewProgram] ELSE ps

\* JacCompiler.parse_str
JacCompiler_parse_str(target_program, source_str, file_path, cancel_token) ==
    parse_finish(front_token(parse_front(target_program, source_str, file_path),
                             cancel_token))

\* JacCompiler.compile: the IR schedule
compiler_compile_ir(ctx, fl) ==
    IF ctx.raised THEN ctx
    ELSE IF fl.symtab_ir_only THEN run_schedule(ctx, compiler_get_symtab_ir_sched)
    ELSE IF fl.minimal THEN run_schedule(ctx, compiler_get_minimal_ir_gen_sched)
    ELSE run_schedule(ctx, compiler_get_ir_gen_sched)

\* JacCompiler.compile: the type-checking schedule
compiler_compile_type_check(ctx, fl) ==
    IF ~ctx.raised /\ fl.type_check /\ ~fl.minimal
    THEN run_schedule(ctx, compiler_get_type_check_sched) ELSE ctx

\* JacCompiler.compile: code generation
compiler_compile_codegen(ctx, fl) ==
    IF ~ctx.raised /\ ~ctx.mod.has_syntax_errors /\ ~fl.no_cgen
    THEN run_schedule(ctx, IF fl.minimal THEN compiler_get_minimal_py_code_gen
                           ELSE compiler_get_py_code_gen)
    ELSE ctx

\* the body of JacCompiler.compile on the program it resolved
JacCompiler_compile_on(actual_program, file_path, use_str, fl, cancel_token) ==
    Publish(
      compiler_compile_codegen(
        compiler_compile_type_check(
          compiler_compile_ir(
            with_token(
              IF str_truthy(use_str)
              THEN JacCompiler_parse_str(actual_program, use_str.val, file_path, cancel_token)
              ELSE IF Readable(file_path)
              THEN log_read(JacCompiler_parse_str(actual_program,
                                                  read_file_with_encoding(file_path),
                                                  file_path, cancel_token),
                            file_path)
              ELSE read_failed(actual_program, file_path),
              cancel_token),
            fl),
          fl),
        fl))

\* the outcome of a JacCompiler call on the set of programs
CcResult(ps, actual, c) ==
    [progs |-> [ps EXCEPT ![actual] = c.prog], actual |-> actual, mod |-> c.mod,
     log |-> c.log, raised |-> c.raised]

\* JacCompiler.compile once the owning program is resolved
compile_routed(ps, actual, file_path, use_str, fl, cancel_token) ==
    CcResult(ps, actual,
             JacCompiler_compile_on(ps[actual], file_path, use_str, fl, cancel_token))

\* JacCompiler.compile
JacCompiler_compile(ps, file_path, target_program, use_str, fl, cancel_token) ==
    compile_routed(internal_program(ps, resolve_program(file_path, target_program)),
                   resolve_program(file_path, target_program), file_path, use_str, fl,
                   cancel_token)

\* the pass JacCompiler.build runs after compile
compiler_build_finish(r) ==
    IF r.raised THEN r
    ELSE [r EXCEPT !.log = Append(@, Ev("pass", "SemanticAnalysisPass", r.mod.path))]

\* JacCompiler.build
JacCompiler_build(ps, file_path, target_program, type_check) ==
    compiler_build_finish(
      JacCompiler_compile(
        internal_program(ps, resolve_program(file_path, target_program)),
        file_path, resolve_program(file_path, target_program), None,
        [DefaultFlags EXCEPT !.type_check = type_check], None))

\* the outcome of a JacCompiler.get_bytecode call
CgResult(ps, actual, d, ret, tiers, log, mod) ==
    [progs |-> ps, actual |-> actual, disk |-> d, ret |-> ret, tiers |-> tiers,
     log |-> log, mod |-> mod]

\* JacCompiler.get_bytecode, tier 3 after compile()
compiler_gb_store(result, d, cache_key) ==
    IF result.raised
    THEN CgResult(result.progs, result.actual, d, Raised, <<"hub", "disk", "compile">>,
                  result.log, None)
    ELSE IF Truthy(result.mod.py_bytecode)
    THEN CgResult(result.progs, result.actual,
                  BytecodeCache_put(d, cache_key, result.mod.py_bytecode),
                  marshal_loads(result.mod.py_bytecode),
                  <<"hub", "disk", "compile", "put", "return">>, result.log, result.mod)
    ELSE CgResult(result.progs, result.actual, d, None,
                  <<"hub", "disk", "compile", "return">>, result.log, result.mod)

\* JacCompiler.get_bytecode once the owning program is resolved
get_bytecode_routed(ps, actual, d, full_target, minimal) ==
    IF hub_hit(ps[actual], full_target)
    THEN CgResult(ps, actual, d, hub_return(ps[actual].hub[full_target].py_bytecode),
                  <<"hub", "return">>, <<>>, None)
    ELSE IF BytecodeCache_get(d, CacheKey_for_source(full_target, minimal)) # None
    THEN CgResult(ps, actual, d,
                  BytecodeCache_get(d, CacheKey_for_source(full_target, minimal)),
                  <<"hub", "disk", "return">>, <<>>, None)
    ELSE compiler_gb_store(
            JacCompiler_compile(ps, full_target, actual, None,
                                [DefaultFlags EXCEPT !.minimal = minimal], None),
            d, CacheKey_for_source(full_target, minimal))

\* JacCompiler.get_bytecode
JacCompiler_get_bytecode(ps, d, full_target, target_program, minimal) ==
    get_bytecode_routed(internal_program(ps, resolve_program(full_target, target_program)),
                        resolve_program(full_target, target_program), d, full_target,
                        minimal)

----------------------------------------------------------------------------
\* The state machine

\* the record of a call: who was called with what, and what came back
Call(op, drv, target, actual, path, fl, ret, mod, tiers, log, prev) ==
    [op |-> op, drv |-> drv, target |-> target, actual |-> actual, path |-> path,
     fl |-> fl, ret |-> ret, mod |-> mod, tiers |-> tiers, log |-> log, prev |-> prev,
     tok |-> None, use_str |-> None]

\* no get_bytecode call is in progress
Idle == [pc |-> "idle"]

\* a get_bytecode call suspended before tier 3's compile() or before its put()
Frame(pc, drv, path, minimal, mod, log) ==
    [pc |-> pc, drv |-> drv, path |-> path, minimal |-> minimal, mod |-> mod, log |-> log]

NoCall == Call("init", "env", "", "", <<>>, DefaultFlags, None, None, <<>>, <<>>, None)

EnvCall(op, target, path) ==
    Call(op, "env", target, target, path, DefaultFlags, None, None, <<>>, <<>>, None)

ServedKeys == ProgIds \X Paths \X BOOLEAN

\* served, after a get_bytecode call on `actual` returned `ret`
Serve(actual, path, minimal, ret) ==
    IF ret.tag = "code" THEN [served EXCEPT ![<<actual, path, minimal>>] = ret] ELSE served

\* what an earlier process left in the disk cache: the minimal-mode artifacts of
\* the well-formed sources
WarmDisk ==
    [slot \in {[source_path |-> p, minimal |-> TRUE, src |-> files[p]] :
                 p \in {q \in Editable : ~FrontEndErrors(files[q])}}
       |-> marshal_dumps(CodeObj(slot.source_path, slot.src, TRUE))]

\* a process that has made no call yet
InitProcess ==
    /\ progs = [p \in ProgIds |-> IF p = "INT" THEN Unbuilt ELSE NewProgram]
    /\ served = [k \in ServedKeys |-> None]
    /\ ncompiles = [p \in Paths |-> 0]
    /\ last = NoCall
    /\ nops = 0
    /\ frames = [p \in UserProgs |-> Idle]

InitBase ==
    /\ \E a \in Sources, b \in Sources :
          files = (PInt :> a) @@ (PUsr :> b) @@ (PImpl :> "v1")
    /\ InitProcess

\* a fresh process, over a disk cache that is empty or was filled by an earlier one
Init == InitBase /\ \E warm \in BOOLEAN : disk = IF warm THEN WarmDisk ELSE [x \in {} |-> None]

\* a fresh process over an empty disk cache
InitCold == InitBase /\ disk = [x \in {} |-> None]

\* what there can be at the path of a file that need not exist
FileStates == {"absent", "v1", "err", Unreadable}

FileAt(path, st) == IF st = "absent" THEN [x \in {} |-> ""] ELSE (path :> st)

\* a fresh process in a directory where the user module may have an implementation
\* annex and a test annex, readable or not, and has a foreign-language neighbour
InitFiles ==
    /\ \E u \in {"v1", "err"}, i \in FileStates, t \in FileStates, y \in {"v1", "err"} :
          files = (PInt :> "v1") @@ (PUsr :> u) @@ FileAt(PImpl, i) @@ FileAt(PTest, t)
                  @@ (PPy :> y)
    /\ InitProcess
    /\ disk = [x \in {} |-> None]

\* every step counts against the bound `lim` of the specification it belongs to
Tick(lim) == nops < lim /\ nops' = nops + 1

\* prog.get_bytecode(path, minimal) on a user's JacProgram
ProgGetBytecode(lim, p, path, minimal) ==
    /\ Tick(lim)
    /\ \E r \in {JacProgram_get_bytecode(progs[p], disk, path, minimal)} :
       /\ progs' = [progs EXCEPT ![p] = r.prog]
       /\ disk' = r.disk
       /\ served' = Serve(p, path, minimal, r.ret)
       /\ UNCHANGED ncompiles
       /\ last' = Call("get_bytecode", "JacProgram", p, p, path,
                       [DefaultFlags EXCEPT !.minimal = minimal], r.ret, r.mod, r.tiers,
                       r.log, served[<<p, path, minimal>>])
       /\ UNCHANGED <<frames, files>>

\* compiler.get_bytecode(path, target, minimal) on the JacCompiler
CompGetBytecode(lim, target, path, minimal) ==
    /\ Tick(lim)
    /\ \E r \in {JacCompiler_get_bytecode(progs, disk, path, target, minimal)} :
       /\ progs' = r.progs
       /\ disk' = r.disk
       /\ served' = Serve(r.actual, path, minimal, r.ret)
       /\ ncompiles' = IF "compile" \in Range(r.tiers)
                       THEN [ncompiles EXCEPT ![path] = @ + 1] ELSE ncompiles
       /\ last' = Call("get_bytecode", "JacCompiler", target, r.actual, path,
                       [DefaultFlags EXCEPT !.minimal = minimal], r.ret, r.mod, r.tiers,
                       r.log, served[<<r.actual, path, minimal>>])
       /\ UNCHANGED <<frames, files>>

\* prog.compile(path, flags, cancel_token)
ProgCompile(lim, p, path, use_str, fl, cancel_token) ==
    /\ Tick(lim)
    /\ \E r \in {JacProgram_compile(progs[p], path, use_str, fl, cancel_token)} :
       /\ progs' = [progs EXCEPT ![p] = r.prog]
       /\ last' = [Call("compile", "JacProgram", p, p, path, fl,
                        IF r.raised THEN Raised ELSE None, r.mod, <<>>, r.log, None)
                     EXCEPT !.tok = cancel_token, !.use_str = use_str]
       /\ UNCHANGED <<frames, files, disk, served, ncompiles>>

\* compiler.compile(path, target, flags, cancel_token)
CompCompile(lim, target, path, use_str, fl, cancel_token) ==
    /\ Tick(lim)
    /\ \E r \in {JacCompiler_compile(progs, path, target, use_str, fl, cancel_token)} :
       /\ progs' = r.progs
       /\ last' = [Call("compile", "JacCompiler", target, r.actual, path, fl,
                        IF r.raised THEN Raised ELSE None, r.mod, <<>>, r.log, None)
                     EXCEPT !.tok = cancel_token, !.use_str = use_str]
       /\ UNCHANGED <<frames, files, disk, served, ncompiles>>

\* prog.build(path, type_check)
ProgBuild(lim, p, path, type_check) ==
    /\ Tick(lim)
    /\ \E r \in {JacProgram_build(progs[p], path, type_check)} :
       /\ progs' = [progs EXCEPT ![p] = r.prog]
       /\ last' = Call("build", "JacProgram", p, p, path,
                       [DefaultFlags EXCEPT !.type_check = type_check],
                       IF r.raised THEN Raised ELSE None, r.mod, <<>>, r.log, None)
       /\ UNCHANGED <<frames, files, disk, served, ncompiles>>

\* compiler.build(path, target, type_check)
CompBuild(lim, target, path, type_check) ==
    /\ Tick(lim)
    /\ \E r \in {JacCompiler_build(progs, path, target, type_check)} :
       /\ progs' = r.progs
       /\ last' = Call("build", "JacCompiler", target, r.actual, path,
                       [DefaultFlags EXCEPT !.type_check = type_check],
                       IF r.raised THEN Raised ELSE None, r.mod, <<>>, r.log, None)
       /\ UNCHANGED <<frames, files, disk, served, ncompiles>>

\* prog.parse_str(source_str, path, cancel_token)
ProgParseStr(lim, p, path, src, cancel_token) ==
    /\ Tick(lim)
    /\ \E r \in {JacProgram_parse_str(progs[p], src, path, cancel_token)} :
       /\ progs' = [progs EXCEPT ![p] = r.prog]
       /\ last' = [Call("parse_str", "JacProgram", p, p, path, DefaultFlags,
                        IF r.raised THEN Raised ELSE None, r.mod, <<>>, r.log, None)
                     EXCEPT !.tok = cancel_token]
       /\ UNCHANGED <<frames, files, disk, served, ncompiles>>

\* compiler.parse_str(source_str, path, target, cancel_token): works on the target
\* as given
CompParseStr(lim, target, path, src, cancel_token) ==
    /\ Tick(lim)
    /\ \E r \in {JacCompiler_parse_str(progs[target], src, path, cancel_token)} :
       /\ progs' = [progs EXCEPT ![target] = r.prog]
       /\ last' = [Call("parse_str", "JacCompiler", target, target, path, DefaultFlags,
                        IF r.raised THEN Raised ELSE None, r.mod, <<>>, r.log, None)
                     EXCEPT !.tok = cancel_token]
       /\ UNCHANGED <<frames, files, disk, served, ncompiles>>

\* prog.clear_type_system(clear_hub)
ClearTypeSystem(lim, p, clear_hub) ==
    /\ Tick(lim)
    /\ progs[p].built
    /\ progs' = [progs EXCEPT ![p] = clear_type_system(@, clear_hub)]
    /\ last' = EnvCall(IF clear_hub THEN "clear_hub" ELSE "clear_types", p, <<>>)
    /\ UNCHANGED <<frames, files, disk, served, ncompiles>>

\* the user saves a new text for a source file
EditFile(lim, path, src) ==
    /\ Tick(lim)
    /\ files[path] # src
    /\ files' = [files EXCEPT ![path] = src]
    /\ last' = EnvCall("edit", "", path)
    /\ UNCHANGED <<frames, progs, disk, served, ncompiles>>

\* a stored disk entry is damaged
CorruptDisk(lim, slot) ==
    /\ Tick(lim)
    /\ marshal_loads(disk[slot]) # Raised
    /\ disk' = [disk EXCEPT ![slot] = GarbageBytes]
    /\ last' = EnvCall("corrupt_disk", "", slot.source_path)
    /\ UNCHANGED <<frames, files, progs, served, ncompiles>>

\* a module's artifact slot is overwritten with something that is no bytecode
CorruptSlot(lim, p, path, junk) ==
    /\ Tick(lim)
    /\ path \in DOMAIN progs[p].hub
    /\ progs[p].hub[path].py_bytecode # None
    /\ progs[p].hub[path].py_bytecode # junk
    /\ progs' = [progs EXCEPT ![p].hub[path].py_bytecode = junk]
    /\ last' = EnvCall("corrupt_slot", p, path)
    /\ UNCHANGED <<frames, files, disk, served, ncompiles>>

\* Cache lookups by both drivers, in an environment that edits sources, damages
\* stored artifacts and clears hubs.
Next ==
    \/ \E p \in UserProgs, path \in Editable, m \in BOOLEAN : ProgGetBytecode(MaxOps, p, path, m)
    \/ \E p \in UserProgs, path \in Editable, m \in BOOLEAN : CompGetBytecode(MaxOps, p, path, m)
    \/ \E p \in ProgIds, ch \in BOOLEAN : ClearTypeSystem(MaxOps, p, ch)
    \/ \E path \in Editable, src \in Sources : EditFile(MaxOps, path, src)
    \/ \E slot \in DOMAIN disk : CorruptDisk(MaxOps, slot)
    \/ \E p \in ProgIds, path \in Editable, junk \in {GarbageBytes, NotBytes} :
          CorruptSlot(MaxOps, p, path, junk)

Spec == Init /\ [][Next]_vars

\* the program the direct driver calls are made on
DriverProgs == {"P1"}

\* Every driver call, with every combination of compile()'s options.
NextDriver ==
    \/ \E p \in DriverProgs, path \in Paths, fl \in Flags :
          ProgCompile(MaxCalls, p, path, None, fl, None)
    \/ \E p \in DriverProgs, path \in Paths, fl \in Flags :
          CompCompile(MaxCalls, p, path, None, fl, None)
    \/ \E p \in DriverProgs, path \in Paths, tc \in BOOLEAN : ProgBuild(MaxCalls, p, path, tc)
    \/ \E p \in DriverProgs, path \in Paths, tc \in BOOLEAN : CompBuild(MaxCalls, p, path, tc)
    \/ \E p \in DriverProgs, path \in Paths, m \in BOOLEAN :
          ProgGetBytecode(MaxCalls, p, path, m)
    \/ \E p \in DriverProgs, path \in Paths, m \in BOOLEAN :
          CompGetBytecode(MaxCalls, p, path, m)

SpecDriver == InitCold /\ [][NextDriver]_vars

\* Sequences of get_bytecode calls on the one JacCompiler, on behalf of any caller.
NextRouter ==
    \E p \in UserProgs, path \in Paths, m \in BOOLEAN : CompGetBytecode(MaxRouterCalls, p, path, m)

SpecRouter == Init /\ [][NextRouter]_vars

\* Every operation that works on a program's registry, main module or diagnostics.
NextParse ==
    \/ \E p \in DriverProgs, path \in ParsePaths, src \in Sources :
          ProgParseStr(MaxParseOps, p, path, src, None)
    \/ \E p \in DriverProgs, path \in ParsePaths, src \in Sources :
          CompParseStr(MaxParseOps, p, path, src, None)
    \/ \E p \in DriverProgs, path \in Paths :
          ProgCompile(MaxParseOps, p, path, None, DefaultFlags, None)
    \/ \E p \in DriverProgs, path \in Paths :
          CompCompile(MaxParseOps, p, path, None, DefaultFlags, None)
    \/ \E p \in DriverProgs, path \in Paths : ProgBuild(MaxParseOps, p, path, FALSE)
    \/ \E p \in DriverProgs, path \in Paths : CompBuild(MaxParseOps, p, path, FALSE)
    \/ \E p \in DriverProgs, path \in Paths : ProgGetBytecode(MaxParseOps, p, path, FALSE)
    \/ \E p \in DriverProgs, path \in Paths : CompGetBytecode(MaxParseOps, p, path, FALSE)
    \/ \E p \in DriverProgs \cup {"INT"}, ch \in BOOLEAN : ClearTypeSystem(MaxParseOps, p, ch)

SpecParse == InitCold /\ [][NextParse]_vars

\* the paths compile() is called with where files may be missing or unreadable
FilePaths == {PUsr, PInt, PPy, PGone}

\* Driver calls in a directory whose annex files vary.
NextFiles ==
    \/ \E p \in DriverProgs, path \in FilePaths :
          ProgCompile(MaxFileOps, p, path, None, DefaultFlags, None)
    \/ \E p \in DriverProgs, path \in FilePaths :
          CompCompile(MaxFileOps, p, path, None, DefaultFlags, None)
    \/ \E p \in DriverProgs, path \in FilePaths : ProgBuild(MaxFileOps, p, path, FALSE)
    \/ \E p \in DriverProgs, path \in FilePaths : CompBuild(MaxFileOps, p, path, FALSE)
    \/ \E p \in DriverProgs, path \in {PUsr, PInt} :
          ProgGetBytecode(MaxFileOps, p, path, FALSE)
    \/ \E p \in DriverProgs, path \in {PUsr, PInt} :
          CompGetBytecode(MaxFileOps, p, path, FALSE)
    \/ \E p \in DriverProgs, src \in {"v1", "err"} : ProgParseStr(MaxFileOps, p, PUsr, src, None)

SpecFiles == InitFiles /\ [][NextFiles]_vars

\* the cancel_token arguments: none, or an Event the caller sets before the call or
\* while it runs
Tokens == {None} \cup {Token(k) : k \in 0..MaxCancelAt}

\* the option combinations of the calls that are given a token
CancelFlags ==
    {DefaultFlags, [DefaultFlags EXCEPT !.type_check = TRUE],
     [DefaultFlags EXCEPT !.minimal = TRUE], [DefaultFlags EXCEPT !.no_cgen = TRUE]}

\* compile() and parse_str() calls of both drivers with a cancellation token.
NextCancel ==
    \/ \E p \in DriverProgs, fl \in CancelFlags, t \in Tokens :
          ProgCompile(MaxCancelCalls, p, PUsr, None, fl, t)
    \/ \E p \in DriverProgs, fl \in CancelFlags, t \in Tokens :
          CompCompile(MaxCancelCalls, p, PUsr, None, fl, t)
    \/ \E p \in DriverProgs, path \in {PUsr, PPy, PJs}, src \in {"v1", "err"}, t \in Tokens :
          ProgParseStr(MaxCancelCalls, p, path, src, t)
    \/ \E p \in DriverProgs, path \in {PUsr, PPy, PJs}, src \in {"v1", "err"}, t \in Tokens :
          CompParseStr(MaxCancelCalls, p, path, src, t)

SpecCancel == InitCold /\ [][NextCancel]_vars

\* compile() of both drivers over every kind of use_str argument
MaxUseStrCalls == 2

\* use_str is absent, the empty string, or a source text that may differ from the file's
UseStrs == {None} \cup {Str(val) : val \in {"", "v1", "v2", "err"}}

UseStrPaths == {PUsr, PInt, PGone}

NextUseStr ==
    \/ \E p \in DriverProgs, path \in UseStrPaths, u \in UseStrs, fl \in CancelFlags :
          ProgCompile(MaxUseStrCalls, p, path, u, fl, None)
    \/ \E p \in DriverProgs, path \in UseStrPaths, u \in UseStrs, fl \in CancelFlags :
          CompCompile(MaxUseStrCalls, p, path, u, fl, None)

SpecUseStr == InitCold /\ [][NextUseStr]_vars

\* get_bytecode calls of two callers, each on its own program, that run interleaved:
\* a call can be suspended wherever it is about to use the shared disk cache
MaxRaceCalls == 2

RacePaths == {PUsr}

Drivers == {"JacProgram", "JacCompiler"}

\* a get_bytecode call returns
GbReturn(p, drv, path, minimal, ret, mod, tiers, log) ==
    /\ frames' = [frames EXCEPT ![p] = Idle]
    /\ served' = Serve(p, path, minimal, ret)
    /\ last' = Call("get_bytecode", drv, p, p, path,
                    [DefaultFlags EXCEPT !.minimal = minimal], ret, mod, tiers, log,
                    served[<<p, path, minimal>>])

\* get_bytecode up to the end of tier 2: the hub and the disk cache are consulted
GbLookup(lim, p, drv, path, minimal) ==
    /\ Tick(lim)
    /\ frames[p] = Idle
    /\ IF hub_hit(progs[p], path)
       THEN GbReturn(p, drv, path, minimal, hub_return(progs[p].hub[path].py_bytecode),
                     None, <<"hub", "return">>, <<>>)
       ELSE IF BytecodeCache_get(disk, CacheKey_for_source(path, minimal)) # None
       THEN GbReturn(p, drv, path, minimal,
                     BytecodeCache_get(disk, CacheKey_for_source(path, minimal)),
                     None, <<"hub", "disk", "return">>, <<>>)
       ELSE /\ frames' = [frames EXCEPT ![p] = Frame("compile", drv, path, minimal, None, <<>>)]
            /\ last' = EnvCall("miss", p, path)
            /\ UNCHANGED served
    /\ UNCHANGED <<files, progs, disk, ncompiles>>

\* tier 3's compile() by the driver the call was made on
race_compile(ps, p, fr) ==
    IF fr.drv = "JacProgram"
    THEN CcResult(ps, p, JacProgram_compile(ps[p], fr.path, None,
                                            [DefaultFlags EXCEPT !.minimal = fr.minimal],
                                            None))
    ELSE JacCompiler_compile(ps, fr.path, p, None,
                             [DefaultFlags EXCEPT !.minimal = fr.minimal], None)

\* get_bytecode, tier 3: compile(), and the test of the artifact slot
GbCompile(p) ==
    /\ frames[p].pc = "compile"
    /\ \E r \in {race_compile(progs, p, frames[p])} :
       /\ progs' = r.progs
       /\ IF r.raised
          THEN GbReturn(p, frames[p].drv, frames[p].path, frames[p].minimal, Raised, None,
                        <<"hub", "disk", "compile">>, r.log)
          ELSE IF Truthy(r.mod.py_bytecode)
          THEN /\ frames' = [frames EXCEPT ![p] = [@ EXCEPT !.pc = "put", !.mod = r.mod,
                                                            !.log = r.log]]
               /\ last' = EnvCall("compiled", p, frames[p].path)
               /\ UNCHANGED served
          ELSE GbReturn(p, frames[p].drv, frames[p].path, frames[p].minimal, None, r.mod,
                        <<"hub", "disk", "compile", "return">>, r.log)
    /\ UNCHANGED <<files, disk, ncompiles, nops>>

\* get_bytecode, tier 3: the artifact is stored in the disk cache and returned
GbPut(p) ==
    /\ frames[p].pc = "put"
    /\ disk' = BytecodeCache_put(disk, CacheKey_for_source(frames[p].path, frames[p].minimal),
                                 frames[p].mod.py_bytecode)
    /\ GbReturn(p, frames[p].drv, frames[p].path, frames[p].minimal,
                marshal_loads(frames[p].mod.py_bytecode), frames[p].mod,
                <<"hub", "disk", "compile", "put", "return">>, frames[p].log)
    /\ UNCHANGED <<files, progs, ncompiles, nops>>

NextRace ==
    \/ \E p \in UserProgs, drv \in Drivers, path \in RacePaths, m \in BOOLEAN :
          GbLookup(MaxRaceCalls, p, drv, path, m)
    \/ \E p \in UserProgs : GbCompile(p)
    \/ \E p \in UserProgs : GbPut(p)

SpecRace == InitCold /\ [][NextRace]_vars

----------------------------------------------------------------------------
\* Functions of the passes and of the metadata map, applied to drawn inputs

\* no driver call is involved: the program state is that of a fresh process
Detached ==
    /\ files = [x \in {} |-> ""]
    /\ disk = [x \in {} |-> None]
    /\ progs = [p \in ProgIds |-> IF p = "INT" THEN Unbuilt ELSE NewProgram]
    /\ served = [k \in ServedKeys |-> None]
    /\ ncompiles = [p \in Paths |-> 0]
    /\ nops = 0
    /\ frames = [p \in UserProgs |-> Idle]

StaysDetached == UNCHANGED <<files, progs, disk, served, ncompiles, nops, frames>>

\* all sequences over S of length lo..hi
SeqsOf(S, lo, hi) == UNION {[1..n -> S] : n \in lo..hi}

\* Statements of an ability body

\* a statement node; `id` stands for the node's identity, `body` and `else_body` are
\* empty and None where the node type has none
Stmt(t, body, else_body) == [t |-> t, id |-> <<>>, body |-> body, else_body |-> else_body]

ReturnStmt == Stmt("ReturnStmt", <<>>, None)
\* an expression statement that is neither the buffer's initialisation nor its flush
ExprStmt == Stmt("ExprStmt", <<>>, None)
IfStmt(body, else_body) == Stmt("IfStmt", body, else_body)
ElseStmt(body) == Stmt("ElseStmt", body, None)
ElseIf(body, else_body) == Stmt("ElseIf", body, else_body)
WhileStmt(body) == Stmt("WhileStmt", body, None)

RECURSIVE Label(_, _)
RECURSIVE LabelNode(_, _)
\* node identities: every node of a body gets its position as id
Label(stmts, at) == [i \in 1..Len(stmts) |-> LabelNode(stmts[i], at \o <<i>>)]

LabelNode(node, at) ==
    IF node = None THEN None
    ELSE [node EXCEPT !.id = at, !.body = Label(@, at \o <<1>>),
                      !.else_body = LabelNode(@, at \o <<2>>)]

----------------------------------------------------------------------------
\* FixSEBreaksPass: the buffer of deferred side effects and its flush

\* _se_buffer = []
buffer_init == [Stmt("Assignment", <<>>, None) EXCEPT !.id = <<0, 1>>]

\* _create_flush_statement: __jac_flush_se_buffer__(_se_buffer)
flush_stmt == [Stmt("ExprStmt", <<>>, None) EXCEPT !.id = <<0>>]

RECURSIVE find_return_statements_with_context(_)
\* _find_return_statements_with_context: the return statements it reaches, in order
find_return_statements_with_context(stmts) ==
    IF stmts = <<>> THEN <<>>
    ELSE (IF Head(stmts).t = "ReturnStmt" THEN <<Head(stmts).id>>
          ELSE IF Head(stmts).t = "IfStmt"
          THEN find_return_statements_with_context(Head(stmts).body)
               \o (IF Head(stmts).else_body # None
                   THEN find_return_statements_with_context(Head(stmts).else_body.body)
                   ELSE <<>>)
          ELSE find_return_statements_with_context(Head(stmts).body))
         \o find_return_statements_with_context(Tail(stmts))

RECURSIVE insert_before(_, _)
RECURSIVE insert_before_in(_, _)
\* parent_body.insert(parent_body.index(ret_stmt), flush_stmt), parent_body being
\* the list that holds ret_stmt, wherever in the tree it is
insert_before(stmts, ret_id) ==
    IF stmts = <<>> THEN <<>>
    ELSE (IF Head(stmts).id = ret_id THEN <<flush_stmt, Head(stmts)>>
          ELSE <<insert_before_in(Head(stmts), ret_id)>>)
         \o insert_before(Tail(stmts), ret_id)

insert_before_in(node, ret_id) ==
    IF node = None THEN None
    ELSE [node EXCEPT !.body = insert_before(@, ret_id),
                      !.else_body = insert_before_in(@, ret_id)]

RECURSIVE flush_before_each(_, _)
\* the loop of _add_buffer_flush over the returns that were found
flush_before_each(body, return_stmts) ==
    IF return_stmts = <<>> THEN body
    ELSE flush_before_each(insert_before(body, Head(return_stmts)), Tail(return_stmts))

\* _add_buffer_flush
add_buffer_flush(body) ==
    IF find_return_statements_with_context(body) = <<>>
    THEN Append(body, flush_stmt)
    ELSE flush_before_each(body, find_return_statements_with_context(body))

\* FixSEBreaksPass.exit_ability, on an ability whose body is a list of statements
exit_ability(ability) ==
    IF ~ability.needs_se_buffer THEN ability
    ELSE [ability EXCEPT !.body = add_buffer_flush(<<buffer_init>> \o @)]

MaxBodyLen == 2

\* the bodies of nested blocks
InnerBodies == {<<ReturnStmt>>, <<ExprStmt>>, <<ExprStmt, ReturnStmt>>}

\* what can follow an if-body: nothing, else, elif, elif ... else
ElseBodies ==
    {None} \cup {ElseStmt(b) : b \in InnerBodies}
           \cup {ElseIf(b, e) : b \in InnerBodies,
                                e \in {None} \cup {ElseStmt(c) : c \in InnerBodies}}

BodyStmts ==
    {ReturnStmt, ExprStmt} \cup {IfStmt(b, e) : b \in InnerBodies, e \in ElseBodies}
                           \cup {WhileStmt(b) : b \in InnerBodies}

InitFlush ==
    /\ Detached
    /\ \E body \in SeqsOf(BodyStmts, 1, MaxBodyLen), marked \in BOOLEAN :
          last = [op |-> "input",
                  ability |-> [needs_se_buffer |-> marked, body |-> Label(body, <<>>)],
                  out |-> None]

ExitAbility ==
    /\ last.op = "input"
    /\ last' = [op |-> "exit_ability", ability |-> last.ability,
                out |-> exit_ability(last.ability)]
    /\ StaysDetached

NextFlush == ExitAbility

SpecFlush == InitFlush /\ [][NextFlush]_vars

----------------------------------------------------------------------------
\* Side-effecting calls: the detector (CatchBreaksPass) and the rewriter
\* (FixSEBreaksPass)

\* `pattern in text`
Contains(text, pattern) ==
    \E i \in 0..(Len(text) - Len(pattern)) : SubSeq(text, i + 1, i + Len(pattern)) = pattern

\* str.lower, on the letters that occur
lower(text) ==
    [i \in 1..Len(text) |-> IF text[i] = "L" THEN "l" ELSE IF text[i] = "I" THEN "i"
                                                  ELSE text[i]]

\* uni.Name and uni.AtomTrailer as call targets
Name(value) == [t |-> "Name", value |-> value, target |-> None, right |-> None,
                is_attr |-> FALSE]
AtomTrailer(target, right, is_attr) ==
    [t |-> "AtomTrailer", value |-> <<>>, target |-> target, right |-> right,
     is_attr |-> is_attr]

\* uni.FuncCall; `redefined` is what the symbol table answers for the target's name:
\* a symbol with a definition
FuncCall(target, params, redefined) ==
    [t |-> "FuncCall", target |-> target, params |-> params, redefined |-> redefined]

\* the detector's table of I/O functions
side_effect_funcs ==
    {<<"p", "r", "i", "n", "t">>, <<"i", "n", "p", "u", "t">>, <<"o", "p", "e", "n">>,
     <<"w", "r", "i", "t", "e">>, <<"r", "e", "a", "d">>}

\* the rewriter's table
SIDE_EFFECT_CALLS == {<<"p", "r", "i", "n", "t">>, <<"i", "n", "p", "u", "t">>}

logging_patterns ==
    << <<"l", "o", "g">>, <<"l", "o", "g", "g", "e", "r">>,
       <<"l", "o", "g", "g", "i", "n", "g">>, <<"w", "a", "r", "n">>,
       <<"e", "r", "r", "o", "r">>, <<"i", "n", "f", "o">>, <<"d", "e", "b", "u", "g">> >>

matches_logging(text) ==
    \E i \in 1..Len(logging_patterns) : Contains(lower(text), logging_patterns[i])

\* check_side_effect_call, the body of its loop: what one call contributes
detects_call(call) ==
    IF call.target.t = "Name"
    THEN IF call.target.value \in side_effect_funcs /\ ~call.redefined THEN TRUE
         ELSE IF call.target.value \in side_effect_funcs THEN FALSE
         ELSE matches_logging(call.target.value)
    ELSE /\ call.target.is_attr
         /\ call.target.right.t = "Name"
         /\ \/ matches_logging(call.target.right.value)
            \/ /\ call.target.target.t = "Name"
               /\ matches_logging(call.target.target.value)

RECURSIVE sub_calls(_)
\* node.get_all_sub_nodes(uni.FuncCall), from a call downwards
sub_calls(call) ==
    {call} \cup UNION {sub_calls(call.params[i]) : i \in 1..Len(call.params)}

\* BreakFinder.check_side_effect_call on a statement
check_side_effect_call(stmt) == \E call \in sub_calls(stmt.expr) : detects_call(call)

\* BreakFinder.analysis_on_stmt, the side-effect part: the statement is flagged
analysis_on_stmt_se(stmt) == [stmt EXCEPT !.has_break_se = check_side_effect_call(stmt)]

\* the names of an attribute chain, as _is_side_effect_call collects them
trailer_parts(target) ==
    (IF target.right.t = "Name" THEN {target.right.value} ELSE {})
       \cup (IF target.target.t = "Name" THEN {target.target.value} ELSE {})

\* FixSEBreaksPass._is_side_effect_call
is_side_effect_call(call) ==
    IF call.target.t = "Name"
    THEN IF call.target.value \in SIDE_EFFECT_CALLS THEN ~call.redefined
         ELSE matches_logging(call.target.value)
    ELSE \E part \in trailer_parts(call.target) : matches_logging(part)

se_buffer == <<"_", "s", "e", "_", "b", "u", "f", "f", "e", "r">>
append == <<"a", "p", "p", "e", "n", "d">>

\* _replace_side_effect_call: _se_buffer.append((name, (params...), {}))
replace_side_effect_call(call) ==
    FuncCall(AtomTrailer(Name(se_buffer), Name(append), TRUE), call.params, FALSE)

\* FixSEBreaksPass.exit_func_call for the call that is the statement's expression:
\* its parent is the statement
exit_func_call(stmt) ==
    IF ~stmt.has_break_se THEN stmt
    ELSE IF is_side_effect_call(stmt.expr)
    THEN [stmt EXCEPT !.needs_se_buffer = TRUE,
                      !.expr = IF stmt.t = "ExprStmt" THEN replace_side_effect_call(@)
                               ELSE @]
    ELSE stmt

\* the two passes on one statement; a call in the parameters of another call has
\* that call as parent, which carries no flag, and exit_func_call leaves it
fix_se_breaks(stmt) == exit_func_call(analysis_on_stmt_se(stmt))

CallNames == {<<"p", "r", "i", "n", "t">>,
              <<"i", "n", "p", "u", "t">>,
              <<"o", "p", "e", "n">>,
              <<"w", "r", "i", "t", "e">>,
              <<"r", "e", "a", "d">>,
              <<"L", "o", "g">>,
              <<"i", "n", "f", "o">>,
              <<"f", "o", "o">>,
              <<"w", "a", "r", "n", "i", "n", "g", "s">>}

CallTargets ==
    {Name(n) : n \in CallNames}
       \cup {AtomTrailer(Name(o), Name(m), a) :
                o \in {<<"s", "e", "l", "f">>, <<"l", "o", "g", "g", "e", "r">>, <<"f">>},
                m \in {<<"I", "n", "f", "o">>, <<"a", "p", "p", "e", "n", "d">>,
                       <<"w", "r", "i", "t", "e">>},
                a \in BOOLEAN}

\* what a call is given: nothing, a plain call or an I/O call
CallParams == {<<>>, <<FuncCall(Name(<<"f", "o", "o">>), <<>>, FALSE)>>,
               <<FuncCall(Name(<<"i", "n", "p", "u", "t">>), <<>>, FALSE)>>}

InitSE ==
    /\ Detached
    /\ \E t \in {"ExprStmt", "Assignment"}, target \in CallTargets, params \in CallParams,
          redefined \in BOOLEAN :
          last = [op |-> "input",
                  stmt |-> [t |-> t, expr |-> FuncCall(target, params, redefined),
                            has_break_se |-> FALSE, needs_se_buffer |-> FALSE],
                  out |-> None]

FixSEBreaks ==
    /\ last.op = "input"
    /\ last' = [op |-> "fix_se_breaks", stmt |-> last.stmt, out |-> fix_se_breaks(last.stmt)]
    /\ StaysDetached

NextSE == FixSEBreaks

SpecSE == InitSE /\ [][NextSE]_vars

----------------------------------------------------------------------------
\* FixBreaksPass: two-branch conditionals into a selection (torch.where)

Expr(value) == [t |-> "Expr", value |-> value]
String(value) == [t |-> "String", value |-> value]
KWPair(key, value) == [t |-> "KWPair", key |-> key, value |-> value]
Assignment(target, value) == [t |-> "Assignment", target |-> target, value |-> value]
ReturnOf(expr) == [t |-> "ReturnStmt", expr |-> expr]
ExprStmtOf(expr) == [t |-> "ExprStmt", expr |-> expr]
\* an else clause (ElseStmt) or an elif clause (ElseIf) with its statements
ElseOf(t, body) == [t |-> t, body |-> body]
\* an if statement with the two flags the detector may have set on it
IfNode(has_break_dyn_cf, has_dynamo_graph_break, body, else_body) ==
    [t |-> "IfStmt", has_break_dyn_cf |-> has_break_dyn_cf,
     has_dynamo_graph_break |-> has_dynamo_graph_break, condition |-> Expr("c"),
     body |-> body, else_body |-> else_body]

\* position of a node in a list that holds it: lst.index(node)
IndexOf(lst, node) ==
    CHOOSE i \in 1..Len(lst) : lst[i] = node /\ \A j \in 1..(i - 1) : lst[j] # node

\* lst[:idx] + new_nodes + lst[idx + 1:]
Splice(lst, node, new_nodes) ==
    IF node \in Range(lst)
    THEN SubSeq(lst, 1, IndexOf(lst, node) - 1) \o new_nodes
         \o SubSeq(lst, IndexOf(lst, node) + 1, Len(lst))
    ELSE lst

\* replace_node, for a list of new nodes and the attribute "body"
replace_node(parent, new_nodes, old_node) ==
    [parent EXCEPT !.body = Splice(@, old_node, new_nodes),
                   !.kid = Splice(@, old_node, new_nodes)]

\* check_same_lhs
check_same_lhs(assign_a, assign_b) ==
    IF ~(assign_a.t = "Assignment" /\ assign_b.t = "Assignment") THEN None
    ELSE IF ~(assign_a.target[1].t = "Name" /\ assign_b.target[1].t = "Name") THEN None
    ELSE IF assign_a.target[1].value # assign_b.target[1].value THEN None
    ELSE assign_a.target[1]

\* kwargs[key_name] = param.value
dict_set(d, key, value) ==
    IF \E i \in 1..Len(d) : d[i].key = key
    THEN [i \in 1..Len(d) |-> IF d[i].key = key THEN [d[i] EXCEPT !.value = value] ELSE d[i]]
    ELSE Append(d, [key |-> key, value |-> value])

RECURSIVE kwargs_of(_, _)
\* check_method_call: the keyword arguments of the call, in insertion order
kwargs_of(params, d) ==
    IF params = <<>> THEN d
    ELSE kwargs_of(Tail(params),
                   IF Head(params).t = "KWPair"
                   THEN dict_set(d, Head(params).key.value, Head(params).value) ELSE d)

dict_keys(d) == {d[i].key : i \in 1..Len(d)}

\* check_method_call
check_method_call(node) ==
    IF node.t # "ExprStmt" \/ node.expr.t # "FuncCall" THEN None
    ELSE IF node.expr.target.t # "AtomTrailer" THEN None
    ELSE IF node.expr.target.right.value = <<>> THEN None
    ELSE [target |-> node.expr.target.target, method |-> node.expr.target.right.value,
          args |-> SelectSeq(node.expr.params, LAMBDA p : p.t # "KWPair"),
          kwargs |-> kwargs_of(node.expr.params, <<>>)]

cond_name == <<"_", "_", "c", "o", "n", "d">>
true_name == <<"_", "_", "t", "r", "u", "e", "_", "v", "a", "l">>
false_name == <<"_", "_", "f", "a", "l", "s", "e", "_", "v", "a", "l">>

\* extract_expressions: the three temporaries
extract_expressions(condition, true_expr, false_expr) ==
    <<Assignment(<<Name(cond_name)>>, condition), Assignment(<<Name(true_name)>>, true_expr),
      Assignment(<<Name(false_name)>>, false_expr)>>

\* torch.where(__cond, __true_val, __false_val)
where_call ==
    FuncCall(AtomTrailer(Name(<<"t", "o", "r", "c", "h">>),
                         Name(<<"w", "h", "e", "r", "e">>), TRUE),
             <<Name(cond_name), Name(true_name), Name(false_name)>>, FALSE)

\* the name of the temporary that receives the selected argument
tmp_name_value(first_arg) == <<"_", "_">> \o first_arg.value

\* the keyword arguments of the rewritten call: those of the if-arm
kwargs_nodes(kwargs) == [i \in 1..Len(kwargs) |-> KWPair(Name(kwargs[i].key), kwargs[i].value)]

\* exit_if_stmt, case 3: the statements that replace the conditional
method_call_stmts(node, a0, a_call, b_call) ==
    extract_expressions(node.condition, a_call.args[2], b_call.args[2])
       \o <<Assignment(<<Name(tmp_name_value(a_call.args[1]))>>, where_call),
            ExprStmtOf(FuncCall(a0.expr.target,
                                <<a_call.args[1], Name(tmp_name_value(a_call.args[1]))>>
                                   \o kwargs_nodes(a_call.kwargs),
                                FALSE))>>

\* exit_if_stmt, case 3: the test that guards the rewrite
method_calls_match(a_call, b_call) ==
    /\ a_call # None /\ b_call # None
    /\ a_call.method = b_call.method
    /\ dict_keys(a_call.kwargs) = dict_keys(b_call.kwargs)
    /\ Len(a_call.args) >= 2 /\ Len(b_call.args) >= 2
    /\ a_call.args[1].t = "String" /\ b_call.args[1].t = "String"
    /\ a_call.args[1].value = b_call.args[1].value

\* exit_if_stmt on a node with one statement in each branch
exit_if_stmt_branches(parent, node, a0, b0) ==
    IF a0.t = "Assignment" /\ b0.t = "Assignment"
    THEN IF check_same_lhs(a0, b0) # None
         THEN replace_node(parent,
                           extract_expressions(node.condition, a0.value, b0.value)
                              \o <<Assignment(<<check_same_lhs(a0, b0)>>, where_call)>>,
                           node)
         ELSE parent
    ELSE IF a0.t = "ReturnStmt" /\ b0.t = "ReturnStmt"
    THEN IF a0.expr = None \/ b0.expr = None THEN parent
         ELSE replace_node(parent,
                           extract_expressions(node.condition, a0.expr, b0.expr)
                              \o <<ReturnOf(where_call)>>,
                           node)
    ELSE IF a0.t = "ExprStmt" /\ b0.t = "ExprStmt"
    THEN IF method_calls_match(check_method_call(a0), check_method_call(b0))
         THEN replace_node(parent,
                           method_call_stmts(node, a0, check_method_call(a0),
                                             check_method_call(b0)),
                           node)
         ELSE parent
    ELSE parent

\* FixBreaksPass.exit_if_stmt: the parent of the node afterwards
exit_if_stmt(parent, node) ==
    IF ~(node.has_break_dyn_cf \/ node.has_dynamo_graph_break) THEN parent
    ELSE IF Len(node.body) # 1 THEN parent
    ELSE IF node.else_body = None THEN parent
    ELSE IF Len(node.else_body.body) # 1 THEN parent
    ELSE exit_if_stmt_branches(parent, node, node.body[1], node.else_body.body[1])

\* calls self.m("k", x, ...) of two receivers and two methods, with or without a
\* third positional argument and a keyword argument
MethodCalls ==
    {FuncCall(AtomTrailer(Name(r), Name(m), TRUE), <<String(k), Expr("x")>> \o more \o kw,
              FALSE) :
        r \in {<<"s", "e", "l", "f">>, <<"o", "t", "h", "e", "r">>},
        m \in {<<"l", "o", "g">>, <<"p", "u", "t">>}, k \in {<<"k">>, <<"j">>},
        more \in {<<>>, <<Expr("p")>>},
        kw \in {<<>>, <<KWPair(Name(<<"s">>), Expr("1"))>>, <<KWPair(Name(<<"s">>), Expr("2"))>>}}

\* the statements a branch can consist of
BranchStmts ==
    {ExprStmtOf(call) : call \in MethodCalls}
       \cup {ExprStmtOf(FuncCall(Name(<<"f">>), <<String(<<"k">>), Expr("x")>>, FALSE)),
              ExprStmtOf(FuncCall(AtomTrailer(Name(<<"s">>), Name(<<"m">>), TRUE),
                                  <<String(<<"k">>)>>, FALSE))}
       \cup {Assignment(<<tgt>>, Expr(v)) :
                tgt \in {Name(<<"x">>), Name(<<"y">>),
                         AtomTrailer(Name(<<"s">>), Name(<<"x">>), TRUE)},
                v \in {"e1", "e2"}}
       \cup {ReturnOf(e) : e \in {None, Expr("e1"), Expr("e2")}}

\* the statement before the conditional in its parent's body
pre_stmt == ExprStmtOf(Expr("pre"))

InitIf ==
    /\ Detached
    /\ \E a0 \in BranchStmts, b0 \in BranchStmts, two_a \in BOOLEAN, flags \in 0..2,
          else_kind \in {"none", "ElseStmt", "ElseStmt2", "ElseIf"} :
          \E node \in {IfNode(flags = 1, flags = 2,
                               IF two_a THEN <<a0, a0>> ELSE <<a0>>,
                               IF else_kind = "none" THEN None
                               ELSE IF else_kind = "ElseStmt2"
                               THEN ElseOf("ElseStmt", <<b0, b0>>)
                               ELSE ElseOf(else_kind, <<b0>>))} :
             last = [op |-> "input", node |-> node,
                     parent |-> [body |-> <<pre_stmt, node>>,
                                 kid |-> <<Name(<<"{">>), pre_stmt, node, Name(<<"}">>)>>],
                     out |-> None]

ExitIfStmt ==
    /\ last.op = "input"
    /\ last' = [op |-> "exit_if_stmt", node |-> last.node, parent |-> last.parent,
                out |-> exit_if_stmt(last.parent, last.node)]
    /\ StaysDetached

NextIf == ExitIfStmt

SpecIf == InitIf /\ [][NextIf]_vars

----------------------------------------------------------------------------
\* CFGTracer: the detector's walk over the control-flow graph of an ability

NBlocks == 3
Blocks == 1..NBlocks
\* the ability itself is the entry of its graph
AbilityBlock == 1
\* the depth of recursion the interpreter allows, beyond any path without a repeated block
RecursionLimit == NBlocks + 1

\* the statement of each block: the ability, an if-statement whose condition depends on
\* a parameter, and a statement that prints (itself an if-statement or not)
stmt_kind(b, k) == IF b = AbilityBlock THEN "Ability" ELSE IF b = 2 THEN "IfStmt" ELSE k

has_side_effect(kind) == kind \in {"ExprStmt", "IfStmtPrint"}
is_if_stmt(kind) == kind \in {"IfStmt", "IfStmtPrint"}

\* BreakFinder.analysis_on_stmt: the side-effect flag, guarded by analyzed_stmts
analysis_on_stmt_flag_se(tr, b) ==
    IF has_side_effect(stmt_kind(b, tr.kind)) /\ b \notin tr.analyzed_stmts
    THEN [tr EXCEPT !.analyzed_stmts = @ \cup {b}, !.has_break_se[b] = @ + 1]
    ELSE tr

\* BreakFinder.analysis_on_stmt: the control-flow flag, guarded by analyzed_stmts
analysis_on_stmt_flag_dyn(tr, b) ==
    IF is_if_stmt(stmt_kind(b, tr.kind)) /\ b \notin tr.analyzed_stmts
    THEN [tr EXCEPT !.analyzed_stmts = @ \cup {b}, !.has_break_dyn_cf[b] = @ + 1]
    ELSE tr

\* BreakFinder.analysis_on_stmt
analysis_on_stmt(tr, b) ==
    IF stmt_kind(b, tr.kind) = "Ability" THEN tr
    ELSE analysis_on_stmt_flag_dyn(analysis_on_stmt_flag_se(tr, b), b)

\* a call of run_analysis(b): a new frame, unless the interpreter's limit is reached,
\* then the analysis of the block
run_analysis_enter(tr, b) ==
    IF Len(tr.stack) >= RecursionLimit
    THEN [tr EXCEPT !.op = "RecursionError", !.stack = <<>>]
    ELSE [analysis_on_stmt(tr, b) EXCEPT !.op = "run_analysis",
                                         !.stack = Append(@, [node |-> b, i |-> 0]),
                                         !.visits = @ + 1]

\* the successor lists of a block: bb_out of its tail
BbOuts == {<<>>} \cup {<<b>> : b \in Blocks \ {AbilityBlock}}
             \cup {<<b, c>> : b, c \in Blocks \ {AbilityBlock}}

InitCFG ==
    /\ Detached
    /\ \E bb_out \in [Blocks -> BbOuts], kind \in {"ExprStmt", "IfStmtPrint"} :
          last = [op |-> "input", bb_out |-> bb_out, kind |-> kind, stack |-> <<>>,
                  analyzed_stmts |-> {}, visits |-> 0,
                  has_break_se |-> [b \in Blocks |-> 0],
                  has_break_dyn_cf |-> [b \in Blocks |-> 0]]

\* CFGTracer.__init__: run_analysis(self.ability)
CFGTracerInit ==
    /\ last.op = "input"
    /\ last' = run_analysis_enter(last, AbilityBlock)
    /\ StaysDetached

\* run_analysis: the next successor of the block of the innermost call
RunAnalysisSucc ==
    /\ last.op = "run_analysis"
    /\ \E top \in {last.stack[Len(last.stack)]} :
          /\ top.i < Len(last.bb_out[top.node])
          /\ last' = run_analysis_enter(
                         [last EXCEPT !.stack[Len(last.stack)].i = top.i + 1],
                         last.bb_out[top.node][top.i + 1])
    /\ StaysDetached

\* run_analysis: no successor left, the innermost call returns
RunAnalysisReturn ==
    /\ last.op = "run_analysis"
    /\ \E top \in {last.stack[Len(last.stack)]} :
          /\ top.i = Len(last.bb_out[top.node])
          /\ last' = [last EXCEPT !.stack = SubSeq(@, 1, Len(@) - 1),
                                  !.op = IF Len(last.stack) = 1 THEN "returned" ELSE @]
    /\ StaysDetached

NextCFG == CFGTracerInit \/ RunAnalysisSucc \/ RunAnalysisReturn

SpecCFG == InitCFG /\ [][NextCFG]_vars

\* the interpreter runs the single thread of the walk whenever it has a step to take
SpecCFGFair == SpecCFG /\ WF_vars(NextCFG)

----------------------------------------------------------------------------
\* The semantic-metadata map and its cache (jaclang.pycore.mtp, jaclang.pycore.bccache)

\* a list argument, as opposed to None
List(items) == [tag |-> "list", items |-> items]

\* FunctionInfo(name, semstr, params, return_type), with its __post_init__
FunctionInfo(name, semstr, params, return_type) ==
    [name |-> name, semstr |-> semstr,
     params |-> IF params = None THEN List(<<>>) ELSE params,
     return_type |-> return_type, tools |-> List(<<>>), by_call |-> FALSE]

\* the serialized form of a metadata map
Mtir(map) == [tag |-> "mtir", map |-> map]

\* the entry of a key's metadata map: the entry of its bytecode, in the metadata store
MtirSlot(key) == [source_path |-> key.source_path, minimal |-> key.minimal,
                  src |-> files[key.source_path], kind |-> "mtir"]

\* a put_mtir that stores the signatures without their annotations
put_mtir_unannotated(d, key, map) ==
    (MtirSlot(key) :> [tag |-> "bytes",
                       of |-> Mtir([s \in DOMAIN map |-> [map[s] EXCEPT !.semstr = None]])])
       @@ d

\* DiskBytecodeCache.put_mtir
put_mtir(d, key, map) == (MtirSlot(key) :> [tag |-> "bytes", of |-> Mtir(map)]) @@ d

\* DiskBytecodeCache.get_mtir: a missing or undecodable entry is a miss
get_mtir(d, key) ==
    IF MtirSlot(key) \in DOMAIN d /\ d[MtirSlot(key)].of.tag = "mtir"
    THEN d[MtirSlot(key)].of
    ELSE None

MaxMtirOps == 3

MtirScopes == {"test.func1", "test.func2"}

\* the signature records a scope can have, annotated or not: func1 takes a
\* parameter, func2 is constructed without a parameter list
MtirInfos(scope) ==
    {FunctionInfo(IF scope = "test.func1" THEN "func1" ELSE "func2", sem,
                  IF scope = "test.func1"
                  THEN List(<<[name |-> "x", semstr |-> Str("Input x."),
                               type_info |-> "int"]>>)
                  ELSE None,
                  "str") :
        sem \in {None, Str("Test function one.")}}

\* every metadata map over the scopes
MtirMaps ==
    UNION {{m \in [S -> UNION {MtirInfos(s) : s \in S}] : \A s \in S : m[s] \in MtirInfos(s)} :
             S \in SUBSET MtirScopes}

MtirPaths == {PUsr}

\* cache.put_mtir(CacheKey.for_source(path, minimal), map)
PutMtir(lim, path, minimal, map) ==
    /\ Tick(lim)
    /\ disk' = put_mtir(disk, CacheKey_for_source(path, minimal), map)
    /\ last' = [op |-> "put_mtir", key |-> CacheKey_for_source(path, minimal),
                map |-> Mtir(map), ret |-> None]
    /\ UNCHANGED <<frames, files, progs, served, ncompiles>>

\* cache.get_mtir(CacheKey.for_source(path, minimal))
GetMtir(lim, path, minimal) ==
    /\ Tick(lim)
    /\ last' = [op |-> "get_mtir", key |-> CacheKey_for_source(path, minimal),
                map |-> None, ret |-> get_mtir(disk, CacheKey_for_source(path, minimal))]
    /\ UNCHANGED <<frames, files, progs, disk, served, ncompiles>>

\* a stored metadata entry is damaged
DamageMtir(lim, slot) ==
    /\ Tick(lim)
    /\ disk[slot].of.tag = "mtir"
    /\ disk' = [disk EXCEPT ![slot] = GarbageBytes]
    /\ last' = [op |-> "damage", key |-> [source_path |-> slot.source_path,
                                           minimal |-> slot.minimal],
                map |-> None, ret |-> None]
    /\ UNCHANGED <<frames, files, progs, served, ncompiles>>

NextMtir ==
    \/ \E path \in MtirPaths, minimal \in BOOLEAN, map \in MtirMaps :
          PutMtir(MaxMtirOps, path, minimal, map)
    \/ \E path \in MtirPaths, minimal \in BOOLEAN : GetMtir(MaxMtirOps, path, minimal)
    \/ \E slot \in DOMAIN disk : DamageMtir(MaxMtirOps, slot)

SpecMtir == InitCold /\ [][NextMtir]_vars

\* Scope names of the semantic-metadata map

\* str.removesuffix
removesuffix_rstrip(s, suffix) ==
    LET RECURSIVE Strip(_)
        Strip(t) == IF t # <<>> /\ t[Len(t)] \in Range(suffix)
                    THEN Strip(SubSeq(t, 1, Len(t) - 1)) ELSE t
    IN Strip(s)

removesuffix(s, suffix) ==
    IF suffix # <<>> /\ EndsWith(s, suffix) THEN SubSeq(s, 1, Len(s) - Len(suffix)) ELSE s

jac_suffix == <<".", "j", "a", "c">>

\* the scope of a function: its module's name, a dot, its own name
scope_name(module_file, func_name) ==
    removesuffix(module_file, jac_suffix) \o <<".">> \o func_name

MaxNameLen == 3

\* module names are made of the suffix's own characters and of one other letter
NameChars == {"d", "a", "j", "c", "."}

ModuleNames == SeqsOf(NameChars, 1, MaxNameLen)

FuncNames == {<<"f">>, <<"g", "o">>}

InitScope ==
    /\ Detached
    /\ \E n \in ModuleNames, f \in FuncNames :
          last = [op |-> "input", name |-> n, module_file |-> n \o jac_suffix,
                  func_name |-> f]

ScopeName ==
    /\ last.op = "input"
    /\ last' = [op |-> "scope_name", name |-> last.name, module_file |-> last.module_file,
                func_name |-> last.func_name,
                scope |-> scope_name(last.module_file, last.func_name)]
    /\ StaysDetached

NextScope == ScopeName

SpecScope == InitScope /\ [][NextScope]_vars

----------------------------------------------------------------------------
\* Properties

\* the passes of the code-generation schedules
CodegenPasses ==
    Range(get_py_code_gen) \cup Range(get_minimal_py_code_gen)
    \cup Range(compiler_get_py_code_gen) \cup Range(compiler_get_minimal_py_code_gen)

\* the path lies under the compiler's own package root
IsInternal(path) == StartsWith(normpath(path), jaclang_root \o os_sep)

\* no cached artifact, in a registry or on disk, is damaged
NoDamage ==
    /\ \A p \in ProgIds : \A k \in DOMAIN progs[p].hub :
          \/ progs[p].hub[k].py_bytecode = None
          \/ /\ isinstance_bytes(progs[p].hub[k].py_bytecode)
             /\ marshal_loads(progs[p].hub[k].py_bytecode) # Raised
    /\ \A slot \in DOMAIN disk : marshal_loads(disk[slot]) # Raised

\* C1: when the front-end reports a syntax error for the module, compile() runs no
\* code-generation pass on it, leaves its bytecode slot empty, and returns the
\* module instead of raising.
C1_SyntaxErrorSkipsCodegen ==
    (last.op = "compile" /\ FrontEndErrors(files[normpath(last.path)])) =>
        /\ last.ret # Raised
        /\ last.mod # None
        /\ last.mod.has_syntax_errors
        /\ last.mod.py_bytecode = None
        /\ \A i \in 1..Len(last.log) :
              ~(last.log[i].ev = "pass" /\ last.log[i].path = last.path
                /\ last.log[i].name \in CodegenPasses)

\* a compile() call that asked for code generation met a syntax error
C1_Witness ==
    /\ last.op = "compile"
    /\ FrontEndErrors(files[normpath(last.path)])
    /\ ~last.fl.no_cgen
    /\ last.fl.type_check
    /\ last.mod.has_syntax_errors
    /\ \E i \in 1..Len(last.log) : last.log[i].ev = "pass" /\ last.log[i].path = last.path

\* C9: a JacCompiler call on a path under the package root works on the internal
\* program only and leaves every caller's program as it was; a call on any other
\* path works on the caller's program and neither changes nor constructs the
\* internal one.
C9_RoutingIsolates ==
    [][(last'.drv = "JacCompiler" /\ last'.op \in {"compile", "build", "get_bytecode"}) =>
         IF IsInternal(last'.path)
         THEN /\ last'.actual = "INT"
              /\ progs'["INT"].built
              /\ \A q \in UserProgs : progs'[q] = progs[q]
         ELSE /\ last'.actual = last'.target
              /\ progs'["INT"] = progs["INT"]
              /\ \A q \in UserProgs \ {last'.target} : progs'[q] = progs[q]]_vars

\* the same file name was built once under the package root and once outside it,
\* and each registry holds only its own module
C9_Witness ==
    /\ last.drv = "JacCompiler"
    /\ last.op = "build"
    /\ progs["INT"].built
    /\ DOMAIN progs["INT"].hub = {PInt}
    /\ PUsr \in DOMAIN progs["P1"].hub
    /\ PInt \notin DOMAIN progs["P1"].hub

\* the content get_bytecode finds at the path
ContentAt(path) == files[normpath(path)]

\* the disk slot a get_bytecode call addresses
SlotOf(path, minimal) == DiskSlot(CacheKey_for_source(path, minimal))

\* the artifact a compilation of the path's present content yields in the mode
IsFresh(ret, path, minimal) ==
    ret.tag = "code" /\ ret.src = ContentAt(path) /\ ret.minimal = minimal

\* the call ran compile()
Compiled(call) == "compile" \in Range(call.tiers)

\* the call invoked a parser
Parsed(call) == \E i \in 1..Len(call.log) : call.log[i].ev = "parse"

\* C2: an artifact produced under one mode is never returned by a get_bytecode call
\* made under the other mode.
C2_ModesNeverShare ==
    (last.op = "get_bytecode" /\ last.ret.tag = "code") =>
        last.ret.minimal = last.fl.minimal

\* C3: with nothing damaged in the caches, a get_bytecode call that repeats an
\* earlier call (same program, path and mode, source unmodified) returns the
\* identical artifact and invokes no parser.
C3_RepeatedCallIdentical ==
    [][(/\ last'.op = "get_bytecode"
        /\ NoDamage
        /\ last'.prev.tag = "code"
        /\ last'.prev.src = ContentAt(last'.path)) =>
          (last'.ret = last'.prev /\ ~Parsed(last'))]_vars

\* C4 as stated: when the content of the path has changed since the previous call,
\* the call recompiles the new content and leaves the entries cached for the old
\* content unmodified.
C4_ChangedContentRecompiles ==
    [][(/\ last'.op = "get_bytecode"
        /\ NoDamage
        /\ last'.prev.tag = "code"
        /\ last'.prev.src # ContentAt(last'.path)
        /\ ~FrontEndErrors(ContentAt(last'.path))) =>
          /\ Compiled(last')
          /\ IsFresh(last'.ret, last'.path, last'.fl.minimal)
          /\ \A slot \in DOMAIN disk :
                slot.src # ContentAt(last'.path) =>
                   slot \in DOMAIN disk' /\ disk'[slot] = disk[slot]]_vars

\* C4: when the content of the path has changed since the previous call and the
\* program's registry holds no populated artifact slot for the path, the call
\* returns an artifact of the new content, compiling it unless the disk tier already
\* holds an entry for the new content, and leaves the entries cached for other
\* content unmodified; when the registry holds a populated slot, the call returns
\* what that slot yields, without compiling and without touching the disk tier.
C4_MissRecompilesChangedContent ==
    [][(/\ last'.op = "get_bytecode"
        /\ last'.prev.tag = "code"
        /\ last'.prev.src # ContentAt(last'.path)
        /\ ~FrontEndErrors(ContentAt(last'.path))) =>
          IF hub_hit(progs[last'.actual], last'.path)
          THEN /\ last'.ret = hub_return(progs[last'.actual].hub[last'.path].py_bytecode)
               /\ ~Compiled(last')
               /\ disk' = disk
          ELSE /\ IsFresh(last'.ret, last'.path, last'.fl.minimal)
               /\ Compiled(last') <=>
                     BytecodeCache_get(disk, CacheKey_for_source(last'.path,
                                                                 last'.fl.minimal)) = None
               /\ \A slot \in DOMAIN disk :
                     slot.src # ContentAt(last'.path) =>
                        slot \in DOMAIN disk' /\ disk'[slot] = disk[slot]]_vars

\* the content changed after an artifact was served from disk, and the next call
\* compiled the new content while the entry of the old content stayed
C4_Witness ==
    /\ last.op = "get_bytecode"
    /\ last.prev.tag = "code"
    /\ last.prev.src # ContentAt(last.path)
    /\ Compiled(last)
    /\ IsFresh(last.ret, last.path, last.fl.minimal)
    /\ \E slot \in DOMAIN disk :
          /\ slot.source_path = normpath(last.path)
          /\ slot.src = last.prev.src
          /\ marshal_loads(disk[slot]) = last.prev

\* C5: get_bytecode consults the registry first, the disk tier only when the
\* registry misses, and compiles, exactly once, only when both miss; a hit at a
\* tier is returned without consulting the tiers after it.
C5_TierOrder ==
    [][last'.op = "get_bytecode" =>
         IF hub_hit(progs[last'.actual], last'.path)
         THEN /\ last'.tiers = <<"hub", "return">>
              /\ last'.ret = hub_return(progs[last'.actual].hub[last'.path].py_bytecode)
              /\ last'.log = <<>>
         ELSE IF BytecodeCache_get(disk, CacheKey_for_source(last'.path,
                                                             last'.fl.minimal)) # None
         THEN /\ last'.tiers = <<"hub", "disk", "return">>
              /\ last'.ret = BytecodeCache_get(disk, CacheKey_for_source(last'.path,
                                                                         last'.fl.minimal))
              /\ last'.log = <<>>
         ELSE /\ SubSeq(last'.tiers, 1, 3) = <<"hub", "disk", "compile">>
              /\ Cardinality({i \in 1..Len(last'.tiers) : last'.tiers[i] = "compile"}) = 1
              /\ Cardinality({i \in 1..Len(last'.log) :
                                 /\ last'.log[i].ev = "read"
                                 /\ last'.log[i].path = last'.path}) = 1]_vars

\* a call found nothing in the registry while both tiers held an artifact of the
\* path elsewhere, and answered from the disk tier
C5_Witness ==
    /\ last.op = "get_bytecode"
    /\ last.tiers = <<"hub", "disk", "return">>
    /\ last.log = <<>>
    /\ last.ret.tag = "code"
    /\ \E q \in ProgIds \ {last.actual} : hub_hit(progs[q], last.path)

\* C6: on the miss path the disk tier is written exactly when compile() produced
\* an artifact, under the key of the call and before the call returns the decoded
\* artifact; otherwise the call returns None and the disk tier is unchanged.
C6_StoreExactlyOnArtifact ==
    [][(last'.op = "get_bytecode" /\ Compiled(last')) =>
         IF last'.mod # None /\ Truthy(last'.mod.py_bytecode)
         THEN /\ last'.tiers = <<"hub", "disk", "compile", "put", "return">>
              /\ SlotOf(last'.path, last'.fl.minimal) \in DOMAIN disk'
              /\ disk'[SlotOf(last'.path, last'.fl.minimal)] = last'.mod.py_bytecode
              /\ \A slot \in DOMAIN disk' \ {SlotOf(last'.path, last'.fl.minimal)} :
                    slot \in DOMAIN disk /\ disk'[slot] = disk[slot]
              /\ last'.ret = marshal_loads(last'.mod.py_bytecode)
         ELSE /\ "put" \notin Range(last'.tiers)
              /\ last'.ret = None
              /\ disk' = disk]_vars

\* a call compiled a well-formed source and the disk tier holds its artifact
C6_Witness ==
    /\ last.op = "get_bytecode"
    /\ last.tiers = <<"hub", "disk", "compile", "put", "return">>
    /\ SlotOf(last.path, last.fl.minimal) \in DOMAIN disk
    /\ marshal_loads(disk[SlotOf(last.path, last.fl.minimal)]) = last.ret
    /\ last.ret.tag = "code"

\* C7: a get_bytecode call leaves every intact disk entry as it is, stores nothing
\* under a key that holds an intact entry, and, when it reaches the disk tier and
\* finds such an entry, returns it without compiling.
C7_EntriesImmutable ==
    [][last'.op = "get_bytecode" =>
         /\ \A slot \in DOMAIN disk :
               marshal_loads(disk[slot]) # Raised =>
                  slot \in DOMAIN disk' /\ disk'[slot] = disk[slot]
         /\ (/\ SlotOf(last'.path, last'.fl.minimal) \in DOMAIN disk
             /\ marshal_loads(disk[SlotOf(last'.path, last'.fl.minimal)]) # Raised) =>
               /\ "put" \notin Range(last'.tiers)
               /\ ~Compiled(last')
               /\ ~hub_hit(progs[last'.actual], last'.path) =>
                     last'.ret = marshal_loads(disk[SlotOf(last'.path,
                                                           last'.fl.minimal)])]_vars

\* an entry one program stored was returned to another program, uncompiled
C7_Witness ==
    /\ last.op = "get_bytecode"
    /\ ~Compiled(last)
    /\ "disk" \in Range(last.tiers)
    /\ SlotOf(last.path, last.fl.minimal) \in DOMAIN disk
    /\ last.ret = marshal_loads(disk[SlotOf(last.path, last.fl.minimal)])
    /\ \E q \in ProgIds \ {last.actual} :
          served[<<q, last.path, last.fl.minimal>>] = last.ret

\* the artifact a get_bytecode call finds, at the tier where it finds one, is damaged
FoundCorrupt(prog, path, minimal) ==
    IF hub_hit(prog, path)
    THEN ~(/\ isinstance_bytes(prog.hub[path].py_bytecode)
           /\ marshal_loads(prog.hub[path].py_bytecode) # Raised)
    ELSE /\ SlotOf(path, minimal) \in DOMAIN disk
         /\ marshal_loads(disk[SlotOf(path, minimal)]) = Raised

\* C8: when the artifact stored at either tier cannot be decoded, get_bytecode
\* treats it as a miss: it recompiles and returns a fresh artifact, and neither
\* raises nor returns None for a source that compiles.
C8_CorruptedArtifactIsMiss ==
    [][(/\ last'.op = "get_bytecode"
        /\ ~FrontEndErrors(ContentAt(last'.path))
        /\ FoundCorrupt(progs[last'.actual], last'.path, last'.fl.minimal)) =>
          (Compiled(last') /\ IsFresh(last'.ret, last'.path, last'.fl.minimal))]_vars

\* C10 as stated: compile() is invoked at most once for a path under the package
\* root, however many get_bytecode calls name it.
C10_CompiledAtMostOnce ==
    \A p \in Paths : IsInternal(p) => ncompiles[p] <= 1

\* C10: over the get_bytecode calls on one JacCompiler that name a path under the
\* package root, compile() is invoked at most once when the source is free of
\* syntax errors, and by every call when it is not.
C10_WellFormedCompiledAtMostOnce ==
    [][(last'.op = "get_bytecode" /\ last'.drv = "JacCompiler" /\ IsInternal(last'.path)) =>
         IF FrontEndErrors(ContentAt(last'.path))
         THEN ncompiles'[last'.path] = ncompiles[last'.path] + 1
         ELSE ncompiles'[last'.path] <= 1]_vars

\* a second caller asked for a module under the package root that was compiled for
\* the first, and got it from the internal registry
C10_Witness ==
    /\ last.op = "get_bytecode"
    /\ last.drv = "JacCompiler"
    /\ last.target = "P2"
    /\ IsInternal(last.path)
    /\ last.tiers = <<"hub", "return">>
    /\ last.ret.tag = "code"
    /\ ncompiles[last.path] = 1
    /\ progs["P1"] = NewProgram

\* the path has a foreign-language extension
IsForeign(path) == EndsWith(path, <<".", "p", "y">>) \/ EndsWith(path, <<".", "p", "y", "i">>)

\* the path has a scripting-language extension
IsScript(path) ==
    \/ EndsWith(path, <<".", "j", "s">>) \/ EndsWith(path, <<".", "t", "s">>)
    \/ EndsWith(path, <<".", "j", "s", "x">>) \/ EndsWith(path, <<".", "t", "s", "x">>)

\* the front-ends a call invoked on a path, in order
FrontEndsOn(log, path) ==
    SelectSeq(log, LAMBDA e : e.ev = "parse" /\ e.path = path)

\* the positions in a call's log of the pass events with the given test
PassIdx(log, Test(_)) == {i \in 1..Len(log) : log[i].ev = "pass" /\ Test(log[i])}

\* C11 as stated: parse_str invokes exactly one front-end, chosen by the extension
\* of the path alone, and every front-end reports a malformed source through the
\* had_error test, so the call returns a module flagged has_syntax_errors.
C11_OneFrontEndAndHadError ==
    last.op = "parse_str" =>
        /\ Len(FrontEndsOn(last.log, last.path)) = 1
        /\ FrontEndsOn(last.log, last.path)[1].name =
              (IF IsForeign(last.path) THEN "PyastBuildPass"
               ELSE IF IsScript(last.path) THEN "TypeScriptParser" ELSE "JacParser")
        /\ last.ret # Raised
        /\ last.mod.has_syntax_errors = FrontEndErrors(last.mod.src)

\* C11: parse_str enters exactly one front-end, chosen by the extension of the path
\* alone; the scripting-language and native parsers report a malformed source
\* through had_error and the call returns the flagged module, while for a foreign
\* path a malformed source makes py_ast.parse raise before the importer is built.
C11_DispatchByExtension ==
    last.op = "parse_str" =>
        /\ Len(FrontEndsOn(last.log, last.path)) = 1
        /\ IsForeign(last.path) <=>
              FrontEndsOn(last.log, last.path)[1].name \in {"PyastBuildPass", "py_ast.parse"}
        /\ (~IsForeign(last.path) /\ IsScript(last.path)) <=>
              FrontEndsOn(last.log, last.path)[1].name = "TypeScriptParser"
        /\ (~IsForeign(last.path) /\ ~IsScript(last.path)) <=>
              FrontEndsOn(last.log, last.path)[1].name = "JacParser"
        /\ IF IsForeign(last.path) /\ FrontEndErrors(last.mod.src)
           THEN /\ last.ret = Raised
                /\ FrontEndsOn(last.log, last.path)[1].name = "py_ast.parse"
           ELSE /\ last.ret # Raised
                /\ last.mod.has_syntax_errors = FrontEndErrors(last.mod.src)

\* a malformed scripting-language source went to the alternate parser and came back
\* flagged
C11_Witness ==
    /\ last.op = "parse_str"
    /\ IsScript(last.path)
    /\ FrontEndsOn(last.log, last.path)[1].name = "TypeScriptParser"
    /\ last.mod.has_syntax_errors
    /\ last.ret # Raised

\* C12: when parse_str succeeds the registry maps the path to the returned module
\* and the annex resolver has run on it; in compile and build every step of annex
\* attachment precedes the first scheduled pass on the base module.
C12_AnnexBeforeSchedules ==
    (/\ last.op \in {"parse_str", "compile", "build"}
     /\ last.ret # Raised
     /\ ~last.mod.has_syntax_errors) =>
        /\ last.path \in DOMAIN progs[last.actual].hub
        /\ progs[last.actual].hub[last.path] = last.mod
        /\ PassIdx(last.log, LAMBDA e : e.name = "JacAnnexPass" /\ e.path = last.path) # {}
        /\ IF EndsWith(last.path, <<".", "j", "a", "c">>) /\ ~last.mod.annexable_by
           THEN /\ Len(last.mod.impl_mod) = Len(discover_annex_files(last.path, ImplSuffix))
                /\ Len(last.mod.test_mod) = Len(discover_annex_files(last.path, TestSuffix))
           ELSE last.mod.impl_mod = <<>> /\ last.mod.test_mod = <<>>
        /\ \A i \in PassIdx(last.log, LAMBDA e : e.name # "JacAnnexPass"
                                                  /\ e.path = last.path) :
              \A j \in 1..Len(last.log) :
                 (last.log[j].path # last.path \/ last.log[j].name = "JacAnnexPass") => j < i

\* a compile whose base module got its implementation annex before its first pass
C12_Witness ==
    /\ last.op = "compile"
    /\ last.ret # Raised
    /\ Len(last.mod.impl_mod) = 1
    /\ PassIdx(last.log, LAMBDA e : e.name = "SymTabBuildPass" /\ e.path = last.path) # {}
    /\ \E j \in 1..Len(last.log) : last.log[j].ev = "read" /\ last.log[j].path # last.path

\* C13: when the front-end returns with a non-empty error list, parse_str returns
\* the module flagged has_syntax_errors without raising and leaves the registry and
\* the main module of every program as they were, and the annex resolver is not run.
C13_ErrorLeavesProgram ==
    [][(/\ last'.op = "parse_str"
        /\ ~IsForeign(last'.path)
        /\ FrontEndErrors(last'.mod.src)) =>
          /\ last'.ret # Raised
          /\ last'.mod.has_syntax_errors
          /\ \A q \in ProgIds : /\ progs'[q].hub = progs[q].hub
                                /\ progs'[q].main = progs[q].main
                                /\ progs'[q].built = progs[q].built
          /\ PassIdx(last'.log, LAMBDA e : e.name = "JacAnnexPass") = {}
          /\ \A j \in 1..Len(last'.log) : last'.log[j].ev # "read"]_vars

\* a malformed source was parsed on a fresh program, whose main module is still a stub
C13_Witness ==
    /\ last.op = "parse_str"
    /\ last.mod.has_syntax_errors
    /\ last.ret # Raised
    /\ progs[last.actual].main.stub_only
    /\ progs[last.actual].hub = EmptyHub
    /\ Len(progs[last.actual].errors_had) = 1

\* C14 as stated: every compile() call with no_cgen false on a well-formed module
\* returns with the program's errors_had empty and the module's artifact slot filled.
C14_CompileLeavesNoErrors ==
    (/\ last.op = "compile"
     /\ ~FrontEndErrors(ContentAt(last.path))
     /\ ~last.fl.no_cgen) =>
        /\ progs[last.actual].errors_had = <<>>
        /\ last.mod.py_bytecode # None

\* C14: a compile() call with no_cgen false, on a well-formed module and a program
\* without earlier diagnostics, runs the code-generation schedule and returns with
\* the program's errors_had empty and the module's artifact slot filled.
C14_CleanCompileYieldsArtifact ==
    [][(/\ last'.op = "compile"
        /\ ~FrontEndErrors(ContentAt(last'.path))
        /\ ~last'.fl.no_cgen
        /\ progs[last'.actual].errors_had = <<>>) =>
          /\ last'.ret # Raised
          /\ progs'[last'.actual].errors_had = <<>>
          /\ last'.mod.py_bytecode # None
          /\ marshal_loads(last'.mod.py_bytecode).tag = "code"
          /\ \E i \in PassIdx(last'.log, LAMBDA e : e.name = "PyastGenPass"
                                                    /\ e.path = last'.path) :
                \E j \in PassIdx(last'.log, LAMBDA e : e.name = "PyBytecodeGenPass"
                                                       /\ e.path = last'.path) : i < j]_vars

\* the router compiled a well-formed module in minimal mode and its slot is filled
C14_Witness ==
    /\ last.op = "compile"
    /\ last.drv = "JacCompiler"
    /\ last.fl.minimal
    /\ ~last.fl.no_cgen
    /\ progs[last.actual].errors_had = <<>>
    /\ last.mod.py_bytecode # None
    /\ last.path \in DOMAIN progs[last.actual].hub

\* the step is a call of one of the drivers' operations or of clear_type_system
IsDriverOp(call) ==
    call.op \in {"parse_str", "compile", "build", "get_bytecode", "clear_hub", "clear_types"}

\* the call parsed the source at its path successfully
ParsedOk(call) ==
    /\ FrontEndsOn(call.log, call.path) # <<>>
    /\ call.ret # Raised
    /\ call.mod # None
    /\ ~call.mod.has_syntax_errors

\* C15: a main module that is real is never changed again, by any operation; a stub
\* main module is replaced only by a call that parses a module successfully on that
\* program, and then by the module of that call's path.
C15_MainAdoptedOnce ==
    [][IsDriverOp(last') =>
         \A q \in ProgIds :
            /\ ~progs[q].main.stub_only => progs'[q].main = progs[q].main
            /\ (progs[q].main.stub_only /\ ~progs'[q].main.stub_only) =>
                  /\ last'.actual = q
                  /\ ParsedOk(last')
                  /\ progs'[q].main.path = last'.path
                  /\ progs'[q].main.src = last'.mod.src
            /\ (progs[q].main.stub_only /\ last'.actual = q /\ ParsedOk(last')) =>
                  ~progs'[q].main.stub_only]_vars

\* a second module was parsed successfully and the main module is still the first
C15_Witness ==
    /\ last.op = "parse_str"
    /\ ParsedOk(last)
    /\ ~progs[last.actual].main.stub_only
    /\ progs[last.actual].main.path # last.path
    /\ progs[last.actual].main.path \in DOMAIN progs[last.actual].hub
    /\ last.path \in DOMAIN progs[last.actual].hub

\* C16 as stated: whatever operation runs, every path the registry of a program maps
\* stays in the registry and keeps the Module it was mapped to.
C16_EntriesPermanent ==
    [][IsDriverOp(last') =>
         \A q \in ProgIds : \A k \in DOMAIN progs[q].hub :
            /\ k \in DOMAIN progs'[q].hub
            /\ progs'[q].hub[k].src = progs[q].hub[k].src]_vars

\* C16: clear_type_system(clear_hub = True) empties the registry of its program;
\* under every other operation each path the registry maps stays in it, and keeps
\* its Module unless the call parsed that path again, which replaces the entry.
C16_EntriesKeptUnlessCleared ==
    [][IsDriverOp(last') =>
         \A q \in ProgIds :
            IF last'.op = "clear_hub" /\ last'.target = q
            THEN progs'[q].hub = EmptyHub /\ progs'[q].main = progs[q].main
            ELSE \A k \in DOMAIN progs[q].hub :
                    /\ k \in DOMAIN progs'[q].hub
                    /\ \/ progs'[q].hub[k] = progs[q].hub[k]
                       \/ /\ last'.actual = q
                          /\ FrontEndsOn(last'.log, k) # <<>>]_vars

\* a path was parsed a second time, from another source: the registry maps it to the
\* new module while the main module is still the one adopted from the first parse
C16_Witness ==
    /\ last.op = "parse_str"
    /\ ParsedOk(last)
    /\ progs[last.actual].main.path = last.path
    /\ progs[last.actual].main.src # last.mod.src
    /\ progs[last.actual].hub[last.path].src = last.mod.src

\* the first sequence is a prefix of the second
IsPrefix(a, b) == Len(a) <= Len(b) /\ SubSeq(b, 1, Len(a)) = a

\* C17: under every operation the errors_had list and the warnings_had list of each
\* program before the operation are prefixes of the lists after it.
C17_DiagnosticsAppendOnly ==
    [][\A q \in ProgIds :
          /\ IsPrefix(progs[q].errors_had, progs'[q].errors_had)
          /\ IsPrefix(progs[q].warnings_had, progs'[q].warnings_had)]_vars

\* a second malformed source was reported after the first, which is still listed
C17_Witness ==
    /\ last.op \in {"parse_str", "compile", "build", "get_bytecode"}
    /\ last.mod # None
    /\ last.mod.has_syntax_errors
    /\ Len(progs[last.actual].errors_had) = 2
    /\ progs[last.actual].errors_had[1].path # progs[last.actual].errors_had[2].path
    /\ progs[last.actual].errors_had[2].path = last.path

\* C18: no path of an implementation or test annex file is a key of a program's
\* registry, whatever compile, build and get_bytecode calls were made on base modules.
C18_AnnexNeverRegistered ==
    \A q \in ProgIds : \A k \in DOMAIN progs[q].hub : ~IsAnnexPath(k)

\* the annex files a call compiled for its base module
AnnexesOf(call) ==
    {call.log[i].path : i \in {j \in 1..Len(call.log) :
                                  /\ call.log[j].ev = "read"
                                  /\ call.log[j].path # call.path
                                  /\ IsAnnexPath(call.log[j].path)}}

\* the names of the scheduled passes a call ran on a path, in order
ScheduledOn(log, path) ==
    [i \in 1..Len(SelectSeq(log, LAMBDA e : e.ev = "pass" /\ e.path = path
                                            /\ e.name # "JacAnnexPass"))
       |-> SelectSeq(log, LAMBDA e : e.ev = "pass" /\ e.path = path
                                     /\ e.name # "JacAnnexPass")[i].name]

\* C19: during the compilation of an annex for its base module exactly the passes
\* SymTabBuildPass, DeclImplMatchPass, SemanticAnalysisPass are scheduled on the
\* annex module, in that order, whatever the options of the base call, and the
\* artifact slot of every attached annex module is empty.
C19_AnnexMinimalNoCodegen ==
    (last.op \in {"compile", "build", "get_bytecode"} /\ last.mod # None) =>
        /\ \A a \in AnnexesOf(last) :
              ScheduledOn(last.log, a) =
                 <<"SymTabBuildPass", "DeclImplMatchPass", "SemanticAnalysisPass">>
        /\ \A i \in 1..Len(last.mod.impl_mod) :
              /\ last.mod.impl_mod[i].py_bytecode = None
              /\ ~last.mod.impl_mod[i].linked
        /\ \A i \in 1..Len(last.mod.test_mod) :
              /\ last.mod.test_mod[i].py_bytecode = None
              /\ ~last.mod.test_mod[i].linked

\* a base module was compiled in full, with type checking and code generation, and
\* its implementation annex was attached
C19_Witness ==
    /\ last.op = "compile"
    /\ last.fl.type_check /\ ~last.fl.minimal /\ ~last.fl.no_cgen /\ ~last.fl.symtab_ir_only
    /\ AnnexesOf(last) # {}
    /\ Len(last.mod.impl_mod) = 1
    /\ last.mod.py_bytecode # None

PathsOf(mods) == [i \in 1..Len(mods) |-> mods[i].path]

\* the call parsed a base module the annex resolver does not skip, and every annex
\* file discovered for it can be read
AnnexedBase(call) ==
    /\ call.op \in {"parse_str", "compile", "build", "get_bytecode"}
    /\ FrontEndsOn(call.log, call.path) # <<>>
    /\ call.mod # None
    /\ EndsWith(call.path, <<".", "j", "a", "c">>)
    /\ ~IsAnnexPath(call.path)
    /\ ~FrontEndErrors(call.mod.src)
    /\ \A i \in 1..Len(discover_annex_files(call.path, ImplSuffix)) :
          Readable(discover_annex_files(call.path, ImplSuffix)[i])
    /\ \A i \in 1..Len(discover_annex_files(call.path, TestSuffix)) :
          Readable(discover_annex_files(call.path, TestSuffix)[i])

\* C21: for a base module that is not skipped, after annex attachment the
\* implementation list holds exactly the modules of the discovered implementation
\* files and the test list exactly the modules of the discovered test files, each
\* file once, in its own list and not in the other; a category without files leaves
\* its list empty and raises nothing.
C21_AnnexListsMatchDiscovery ==
    AnnexedBase(last) =>
        /\ last.ret # Raised
        /\ PathsOf(last.mod.impl_mod) = discover_annex_files(last.path, ImplSuffix)
        /\ PathsOf(last.mod.test_mod) = discover_annex_files(last.path, TestSuffix)
        /\ \A i \in 1..Len(last.mod.impl_mod) :
              /\ EndsWith(last.mod.impl_mod[i].path, ImplSuffix)
              /\ last.mod.impl_mod[i].src = files[normpath(last.mod.impl_mod[i].path)]
              /\ \A j \in 1..Len(last.mod.test_mod) :
                    last.mod.test_mod[j].path # last.mod.impl_mod[i].path
        /\ \A j \in 1..Len(last.mod.test_mod) :
              /\ EndsWith(last.mod.test_mod[j].path, TestSuffix)
              /\ last.mod.test_mod[j].src = files[normpath(last.mod.test_mod[j].path)]

\* a base module beside one implementation file and one test file got one annex on
\* each list
C21_Witness ==
    /\ AnnexedBase(last)
    /\ last.op = "compile"
    /\ PathsOf(last.mod.impl_mod) = <<PImpl>>
    /\ PathsOf(last.mod.test_mod) = <<PTest>>
    /\ last.mod.py_bytecode # None

\* a base module without any annex file: both lists are empty and nothing is raised
C21_WitnessNoFiles ==
    /\ AnnexedBase(last)
    /\ last.op = "compile"
    /\ discover_annex_files(last.path, ImplSuffix) = <<>>
    /\ discover_annex_files(last.path, TestSuffix) = <<>>
    /\ last.mod.impl_mod = <<>> /\ last.mod.test_mod = <<>>
    /\ last.ret # Raised

\* the first sequence is a prefix of the second and shorter than it
IsStrictPrefix(a, b) == Len(a) < Len(b) /\ SubSeq(b, 1, Len(a)) = a

\* the place of a pass in the dependency order: the five analysis passes, then type
\* checking, then code generation
Rank(name) ==
    IF name = "SymTabBuildPass" THEN 1
    ELSE IF name = "DeclImplMatchPass" THEN 2
    ELSE IF name = "SemanticAnalysisPass" THEN 3
    ELSE IF name = "SemDefMatchPass" THEN 4
    ELSE IF name = "CFGBuildPass" THEN 5
    ELSE IF name = "TypeCheckPass" THEN 6
    ELSE IF name \in CodegenPasses THEN 7
    ELSE 0

\* C22: in both drivers the symtab-only pass list is a strict prefix of the minimal
\* list and the minimal list a strict prefix of the full list; and in every compile()
\* call the passes run on the module one after the other, each analysis pass and the
\* type check at most once, in the order SymTabBuildPass, DeclImplMatchPass,
\* SemanticAnalysisPass, SemDefMatchPass, CFGBuildPass, type checking, code generation.
C22_SchedulesNestedAndOrdered ==
    /\ IsStrictPrefix(get_symtab_ir_sched, get_minimal_ir_gen_sched)
    /\ IsStrictPrefix(get_minimal_ir_gen_sched, get_ir_gen_sched)
    /\ IsStrictPrefix(compiler_get_symtab_ir_sched, compiler_get_minimal_ir_gen_sched)
    /\ IsStrictPrefix(compiler_get_minimal_ir_gen_sched, compiler_get_ir_gen_sched)
    /\ last.op = "compile" =>
          \A i, j \in 1..Len(ScheduledOn(last.log, last.path)) :
             (/\ i < j
              /\ Rank(ScheduledOn(last.log, last.path)[i]) > 0
              /\ Rank(ScheduledOn(last.log, last.path)[j]) > 0) =>
                /\ Rank(ScheduledOn(last.log, last.path)[i])
                      <= Rank(ScheduledOn(last.log, last.path)[j])
                /\ ScheduledOn(last.log, last.path)[i] # ScheduledOn(last.log, last.path)[j]

\* the router compiled a module with every analysis pass, the type check and the full
\* code generation
C22_Witness ==
    /\ last.op = "compile"
    /\ last.drv = "JacCompiler"
    /\ {Rank(ScheduledOn(last.log, last.path)[i]) :
           i \in 1..Len(ScheduledOn(last.log, last.path))} = 0..7
    /\ last.mod.linked

\* the positions in a call's log at which the named pass ran on the path
RanAt(log, name, path) == PassIdx(log, LAMBDA e : e.name = name /\ e.path = path)

\* C23: TypeCheckPass runs in a compile() call only if type_check was requested and
\* minimal is false, and then once; with minimal true it runs on no module, whatever
\* the other options.
C23_TypeCheckOnlyOnRequest ==
    last.op = "compile" =>
        /\ PassIdx(last.log, LAMBDA e : e.name = "TypeCheckPass") # {} =>
              /\ last.fl.type_check
              /\ ~last.fl.minimal
              /\ Cardinality(PassIdx(last.log, LAMBDA e : e.name = "TypeCheckPass")) = 1
              /\ RanAt(last.log, "TypeCheckPass", last.path) # {}
        /\ last.fl.minimal => PassIdx(last.log, LAMBDA e : e.name = "TypeCheckPass") = {}

\* type checking was requested together with minimal and no_cgen false: the module
\* was compiled to bytecode without a type check
C23_Witness ==
    /\ last.op = "compile"
    /\ last.fl.type_check /\ last.fl.minimal /\ ~last.fl.no_cgen
    /\ last.mod.py_bytecode # None
    /\ RanAt(last.log, "SemanticAnalysisPass", last.path) # {}
    /\ RanAt(last.log, "TypeCheckPass", last.path) = {}

\* C24: in every compile() call in which TypeCheckPass runs, whatever the options,
\* every pass of the full schedule (semantic analysis and CFGBuildPass among them)
\* has run on the same module earlier in the call.
C24_TypeCheckAfterFullSchedule ==
    last.op = "compile" =>
        \A t \in RanAt(last.log, "TypeCheckPass", last.path) :
           \A k \in 1..Len(get_ir_gen_sched) :
              \E i \in RanAt(last.log, get_ir_gen_sched[k], last.path) : i < t

\* C25: in every compile() call in which a code-generation pass runs, whatever the
\* options, SemanticAnalysisPass has run on the same module earlier in the call.
C25_CodegenAfterSemanticAnalysis ==
    last.op = "compile" =>
        \A g \in PassIdx(last.log, LAMBDA e : e.name \in CodegenPasses
                                              /\ e.path = last.path) :
           \E i \in RanAt(last.log, "SemanticAnalysisPass", last.path) : i < g

\* the detector and the two rewriters
FixupPasses == {"CatchBreaksPass", "FixDynBreaksPass", "FixSEBreaksPass"}

\* C26: in a compile() call with minimal true, or no_cgen true, or on a module with
\* syntax errors, none of CatchBreaksPass, FixDynBreaksPass, FixSEBreaksPass runs;
\* where they run, they run after every pass of the full analysis schedule and the
\* detector runs before both rewriters.
C26_FixupsOnlyInFullCodegen ==
    last.op = "compile" =>
        /\ (last.fl.minimal \/ last.fl.no_cgen \/ last.mod.has_syntax_errors) =>
              PassIdx(last.log, LAMBDA e : e.name \in FixupPasses) = {}
        /\ \A f \in PassIdx(last.log, LAMBDA e : e.name \in FixupPasses
                                                /\ e.path = last.path) :
              /\ \A k \in 1..Len(get_ir_gen_sched) :
                    \E i \in RanAt(last.log, get_ir_gen_sched[k], last.path) : i < f
              /\ last.log[f].name # "CatchBreaksPass" =>
                    \E d \in RanAt(last.log, "CatchBreaksPass", last.path) : d < f

\* C27: a compile() call with minimal true and symtab_ir_only false runs on the
\* module exactly SymTabBuildPass, DeclImplMatchPass, SemanticAnalysisPass and then,
\* when code generation is allowed, exactly PyastGenPass and PyBytecodeGenPass;
\* CFGBuildPass and CatchBreaksPass never run.
C27_MinimalRunsNoCfgPass ==
    (/\ last.op = "compile"
     /\ last.ret # Raised
     /\ last.fl.minimal
     /\ ~last.fl.symtab_ir_only) =>
        /\ ScheduledOn(last.log, last.path) =
              <<"SymTabBuildPass", "DeclImplMatchPass", "SemanticAnalysisPass">>
              \o (IF ~last.mod.has_syntax_errors /\ ~last.fl.no_cgen
                  THEN <<"PyastGenPass", "PyBytecodeGenPass">> ELSE <<>>)
        /\ PassIdx(last.log, LAMBDA e : e.name \in {"CFGBuildPass", "CatchBreaksPass"}) = {}

\* C28: when the token of a compile() call is set before or during the call, then
\* from the moment it is set on no pass of a schedule is constructed on the module:
\* run_schedule starts no remaining pass and compile() starts no later schedule.
C28_NoPassAfterCancel ==
    (last.op = "compile" /\ last.tok # None) =>
        \A i \in PassIdx(last.log, LAMBDA e : e.path = last.path /\ e.name # "JacAnnexPass") :
           ~is_set(last.tok, i - 1)

\* C29: in a call that is given a cancellation token, every front-end and every pass
\* constructed on behalf of the call, the annex resolver and the passes run on the
\* module's annexes included, receives that token.
C29_TokenReachesEveryPass ==
    (last.op \in {"compile", "parse_str"} /\ last.tok # None) =>
        \A i \in 1..Len(last.log) :
           last.log[i].ev \in {"parse", "pass"} => last.log[i].tok = last.tok

\* the registry, the main module and the diagnostics of every program are the same
\* before and after the step
ProgramsAsBefore ==
    \A q \in ProgIds :
       /\ progs'[q].hub = progs[q].hub
       /\ progs'[q].main = progs[q].main
       /\ progs'[q].errors_had = progs[q].errors_had
       /\ progs'[q].warnings_had = progs[q].warnings_had

\* C30 as stated: whenever compile() raises, for a file that cannot be read or a
\* malformed foreign-language source, no pass has run in the call and the registry,
\* the main module, errors_had and warnings_had of the program are what they were.
C30_RaiseLeavesProgram ==
    [][(last'.op = "compile" /\ last'.ret = Raised) =>
          /\ PassIdx(last'.log, LAMBDA e : TRUE) = {}
          /\ ProgramsAsBefore]_vars

\* C30: when compile() raises because the file at the path of the call cannot be
\* read, or because it is a malformed foreign-language source, no pass has run in
\* the call and the registry, the main module, errors_had and warnings_had of every
\* program are what they were before it.
C30_OwnFileFailureLeavesProgram ==
    [][(/\ last'.op = "compile"
        /\ last'.ret = Raised
        /\ \/ ~Readable(last'.path)
           \/ IsForeign(last'.path) /\ FrontEndErrors(ContentAt(last'.path))) =>
          /\ PassIdx(last'.log, LAMBDA e : TRUE) = {}
          /\ ProgramsAsBefore]_vars

\* a program that holds a module was asked to compile a path without a file
C30_Witness ==
    /\ last.op = "compile"
    /\ last.ret = Raised
    /\ ~Readable(last.path)
    /\ progs[last.actual].hub # EmptyHub
    /\ ~progs[last.actual].main.stub_only

\* the call read the file at the path it was given
ReadOwnFile(call) ==
    \E i \in 1..Len(call.log) : call.log[i].ev = "read" /\ call.log[i].path = call.path

\* C38: when compile() is given use_str, whatever its value, the empty string
\* included, the file reader is never invoked on the path and the module is parsed
\* from that string; the file is read only when use_str is absent.
C38_UseStrNeverReadsFile ==
    last.op = "compile" =>
        IF last.use_str = None
        THEN ReadOwnFile(last)
        ELSE /\ ~ReadOwnFile(last)
             /\ last.ret # Raised
             /\ last.mod # None
             /\ last.mod.src = last.use_str.val

\* the same for every use_str that is not empty: it holds
C38_NonEmptyUseStrNeverReadsFile ==
    (last.op = "compile" /\ last.use_str # Str("")) =>
        IF last.use_str = None
        THEN ReadOwnFile(last)
        ELSE /\ ~ReadOwnFile(last)
             /\ last.mod # None
             /\ last.mod.src = last.use_str.val

\* compile() was given the empty string for a path that holds a file, and read it
C38_EmptyUseStrReadsFile ==
    /\ last.op = "compile" /\ last.use_str = Str("") /\ last.path = PUsr
    /\ ReadOwnFile(last) /\ last.mod # None /\ last.mod.src = "v1"
\* the two drivers' compile() applied to the same program, path and options
ByProgram(p, path, fl) == JacProgram_compile(progs[p], path, None, fl, None)

ByCompiler(p, path, fl) == JacCompiler_compile(progs, path, p, None, fl, None)

OutsidePaths == {path \in Paths : ~IsInternal(path)}

\* C39: for every path outside the toolchain root, every parse outcome and every
\* combination of options, JacCompiler.compile(path, P, ...) and P.compile(path, ...)
\* run the same passes in the same order on the module and leave P's registry and
\* main module in the same state.
C39_DriversAgree ==
    \A p \in DriverProgs, path \in OutsidePaths, fl \in Flags :
       /\ ScheduledOn(ByProgram(p, path, fl).log, path)
             = ScheduledOn(ByCompiler(p, path, fl).log, path)
       /\ ByProgram(p, path, fl).prog.hub = ByCompiler(p, path, fl).progs[p].hub
       /\ ByProgram(p, path, fl).prog.main = ByCompiler(p, path, fl).progs[p].main

\* a default compile() of a well-formed user file, where the two pass sequences differ
C39_SchedulesDiffer ==
    /\ last.op = "compile" /\ last.path = PUsr /\ last.fl = DefaultFlags
    /\ last.ret # Raised /\ ~last.mod.has_syntax_errors
    /\ ScheduledOn(ByProgram("P1", PUsr, DefaultFlags).log, PUsr)
          # ScheduledOn(ByCompiler("P1", PUsr, DefaultFlags).log, PUsr)
\* the disk entry the suspended call of p is about to write
SlotOfFrame(p) == DiskSlot(CacheKey_for_source(frames[p].path, frames[p].minimal))

\* C40: when get_bytecode calls for the same path and mode run interleaved on two
\* programs that share the disk cache, the disk entry of the key is written at most
\* once: no call stores its artifact in an entry that is already written.
C40_DiskEntryWrittenOnce ==
    [][\A p \in UserProgs :
          (frames[p].pc = "put" /\ frames'[p] = Idle) => SlotOfFrame(p) \notin DOMAIN disk]_vars

\* both callers missed the disk tier, compiled the same path in the same mode, and
\* each is about to store its artifact
C40_BothAboutToWrite ==
    /\ frames["P1"].pc = "put" /\ frames["P2"].pc = "put"
    /\ frames["P1"].path = frames["P2"].path
    /\ frames["P1"].minimal = frames["P2"].minimal
\* C32: the scope of function f in the file N.jac is N.f with N unchanged, whatever
\* characters N ends in: only the exact suffix .jac is removed from the file name,
\* never a run of trailing characters that occur in it.
C32_ScopeKeepsModuleName ==
    last.op = "scope_name" =>
        /\ last.scope = last.name \o <<".">> \o last.func_name
        /\ StartsWith(last.scope, last.name)

\* the scope of a module whose name ends in a character of the suffix was computed
C32_Witness ==
    /\ last.op = "scope_name"
    /\ last.name = <<"d", "a">>
    /\ last.scope = <<"d", "a", ".", "g", "o">>
\* two metadata maps have the same scope names, and under each a record of the same
\* name and annotation
SameSignatures(a, b) ==
    /\ DOMAIN a.map = DOMAIN b.map
    /\ \A scope \in DOMAIN a.map :
          /\ a.map[scope].name = b.map[scope].name
          /\ a.map[scope].semstr = b.map[scope].semstr

IsFlush(stmt) == stmt.id = flush_stmt.id

RECURSIVE ReturnsFlushed(_)
RECURSIVE ReturnsFlushedIn(_)
\* in this list and in every nested one, each return directly follows exactly one flush
ReturnsFlushed(stmts) ==
    \A i \in 1..Len(stmts) :
       /\ stmts[i].t = "ReturnStmt" =>
             /\ i > 1 /\ IsFlush(stmts[i - 1])
             /\ i > 2 => ~IsFlush(stmts[i - 2])
       /\ ReturnsFlushedIn(stmts[i])

ReturnsFlushedIn(node) ==
    node # None => ReturnsFlushed(node.body) /\ ReturnsFlushedIn(node.else_body)

RECURSIVE FlushesAtEnd(_, _)
RECURSIVE FlushesAfter(_, _)
RECURSIVE FlushesAfterElse(_, _)
\* the numbers of flushes executed by the runs that reach the end of the list, `ns`
\* being those of the runs that reach its start
FlushesAtEnd(stmts, ns) ==
    IF stmts = <<>> THEN ns ELSE FlushesAtEnd(Tail(stmts), FlushesAfter(Head(stmts), ns))

FlushesAfter(stmt, ns) ==
    IF stmt.t = "ReturnStmt" THEN {}
    ELSE IF IsFlush(stmt) THEN {n + 1 : n \in ns}
    ELSE IF stmt.t = "IfStmt"
    THEN FlushesAtEnd(stmt.body, ns) \cup FlushesAfterElse(stmt.else_body, ns)
    ELSE IF stmt.t = "WhileStmt" THEN ns \cup FlushesAtEnd(stmt.body, ns)
    ELSE ns

FlushesAfterElse(node, ns) ==
    IF node = None THEN ns
    ELSE IF node.t = "ElseStmt" THEN FlushesAtEnd(node.body, ns)
    ELSE FlushesAtEnd(node.body, ns) \cup FlushesAfterElse(node.else_body, ns)

\* C33: in a function rewritten for side-effect buffering every return statement,
\* at any depth of if, elif, else and loop bodies, is immediately preceded by exactly
\* one flush of _se_buffer, and every run that falls off the end of the body has
\* passed through exactly one flush.
C33_FlushedOnceOnEveryWayOut ==
    (last.op = "exit_ability" /\ last.ability.needs_se_buffer) =>
        /\ ReturnsFlushed(last.out.body)
        /\ FlushesAtEnd(last.out.body, {0}) \subseteq {1}

RECURSIVE HasReturn(_)
RECURSIVE HasReturnIn(_)
\* there is a return statement somewhere in the list
HasReturn(stmts) ==
    \E i \in 1..Len(stmts) : stmts[i].t = "ReturnStmt" \/ HasReturnIn(stmts[i])

HasReturnIn(node) == node # None /\ (HasReturn(node.body) \/ HasReturnIn(node.else_body))

\* the same for bodies without any return statement: it holds
C33_FlushedOnceWithoutReturn ==
    (/\ last.op = "exit_ability" /\ last.ability.needs_se_buffer
     /\ ~HasReturn(last.ability.body)) =>
        /\ ReturnsFlushed(last.out.body)
        /\ FlushesAtEnd(last.out.body, {0}) = {1}

\* a rewritten body that returns in one branch and falls off the end in the other,
\* without a flush on the way
C33_FallsOffUnflushed ==
    /\ last.op = "exit_ability" /\ last.ability.needs_se_buffer
    /\ ReturnsFlushed(last.out.body)
    /\ 0 \in FlushesAtEnd(last.out.body, {0})

\* a rewritten body with a return in the else of an elif, which no flush precedes
C33_ReturnUnflushed ==
    /\ last.op = "exit_ability" /\ last.ability.needs_se_buffer
    /\ ~ReturnsFlushed(last.out.body)
\* C34: for each statement on which the detector set has_break_se, after the
\* rewriter has run no side-effecting call of the statement is still executed
\* directly: each has been replaced by an append to _se_buffer.
C34_FlaggedStatementsRewritten ==
    (last.op = "fix_se_breaks" /\ last.out.has_break_se) =>
        \A call \in sub_calls(last.out.expr) : ~detects_call(call)

\* the part that holds: a flagged expression statement whose own call is print, input
\* or a logging call by name, and takes no I/O call as parameter, becomes an append
C34_PlainPrintRewritten ==
    (/\ last.op = "fix_se_breaks" /\ last.out.has_break_se
     /\ last.stmt.t = "ExprStmt"
     /\ is_side_effect_call(last.stmt.expr)
     /\ \A i \in 1..Len(last.stmt.expr.params) : ~detects_call(last.stmt.expr.params[i])) =>
        /\ last.out.expr.target = AtomTrailer(Name(se_buffer), Name(append), TRUE)
        /\ \A call \in sub_calls(last.out.expr) : ~detects_call(call)

\* a flagged statement that calls open() and is left as it was
C34_OpenLeftInPlace ==
    /\ last.op = "fix_se_breaks" /\ last.out.has_break_se
    /\ last.stmt.t = "ExprStmt"
    /\ last.stmt.expr.target = Name(<<"o", "p", "e", "n">>)
    /\ last.out.expr = last.stmt.expr
\* what the spec lists as the shapes the conditional rewriter recognises: flagged, one
\* statement in the if-body, one in the body of the else clause, and the two statements
\* are assignments to the same name, returns with a value, or calls of the same method
RecognisedShape(node) ==
    /\ node.has_break_dyn_cf \/ node.has_dynamo_graph_break
    /\ Len(node.body) = 1
    /\ node.else_body # None /\ node.else_body.t = "ElseStmt" /\ Len(node.else_body.body) = 1
    /\ \/ check_same_lhs(node.body[1], node.else_body.body[1]) # None
       \/ /\ node.body[1].t = "ReturnStmt" /\ node.body[1].expr # None
          /\ node.else_body.body[1].t = "ReturnStmt" /\ node.else_body.body[1].expr # None
       \/ /\ check_method_call(node.body[1]) # None
          /\ check_method_call(node.else_body.body[1]) # None
          /\ check_method_call(node.body[1]).method
                = check_method_call(node.else_body.body[1]).method

\* C35: the conditional rewriter replaces an if-statement only when it is flagged, each
\* of its if-body and else-body holds one statement and the two are assignments to the
\* same name, returns with a value or calls of the same method; otherwise the parent's
\* body and child list are unchanged
C35_RewritesOnlyRecognisedShapes ==
    last.op = "exit_if_stmt" /\ ~RecognisedShape(last.node) => last.out = last.parent

\* C35 (the part that holds): the same with an elif clause counted as the else-body
C35_RewritesOnlyRecognisedOrElif ==
    last.op = "exit_if_stmt"
       /\ ~RecognisedShape([last.node EXCEPT
                              !.else_body = IF @ = None THEN None
                                            ELSE ElseOf("ElseStmt", @.body)])
       => last.out = last.parent

\* C35: a flagged if/elif with one assignment to the same name in each was replaced
C35_ElifRewritten ==
    /\ last.op = "exit_if_stmt"
    /\ last.node.else_body # None /\ last.node.else_body.t = "ElseIf"
    /\ last.out # last.parent
    /\ last.node \notin Range(last.out.body) /\ last.node \notin Range(last.out.kid)

\* C35: an unflagged conditional of a recognised form was left alone
C35_UnflaggedUntouched ==
    /\ last.op = "exit_if_stmt"
    /\ ~(last.node.has_break_dyn_cf \/ last.node.has_dynamo_graph_break)
    /\ Len(last.node.body) = 1 /\ last.node.else_body # None
    /\ last.out = last.parent

\* the call the rewritten code makes: the last statement put in place of the conditional
RewrittenCall == last.out.body[Len(last.out.body)].expr

\* the call the original code makes when the condition has the value v
ArmCall(v) == IF v THEN last.node.body[1].expr ELSE last.node.else_body.body[1].expr

\* the positional arguments of a call other than the selected (second) one
OtherArgs(call) ==
    SelectSeq([i \in 1..Len(call.params) |-> [i |-> i, p |-> call.params[i]]],
              LAMBDA e : e.p.t # "KWPair" /\ e.i # 2)

\* a flagged conditional whose arms are method calls was rewritten into a single call
MethodCallRewritten ==
    /\ last.op = "exit_if_stmt" /\ last.out # last.parent
    /\ last.node.body[1].t = "ExprStmt"

\* C36: when a conditional whose arms are method calls is rewritten, then for either
\* value of the condition the single call has the receiver, the method, the other
\* positional arguments and the keyword argument values of the arm that would have run
C36_RewrittenCallMatchesEitherArm ==
    MethodCallRewritten =>
        \A v \in BOOLEAN :
            /\ RewrittenCall.target = ArmCall(v).target
            /\ [i \in 1..Len(OtherArgs(RewrittenCall)) |-> OtherArgs(RewrittenCall)[i].p]
                  = [i \in 1..Len(OtherArgs(ArmCall(v))) |-> OtherArgs(ArmCall(v))[i].p]
            /\ kwargs_of(RewrittenCall.params, <<>>) = kwargs_of(ArmCall(v).params, <<>>)

\* C36 (the part that holds): the single call has the method of both arms, the first
\* argument of both arms, and everything of the if-arm
C36_RewrittenCallMatchesIfArm ==
    MethodCallRewritten =>
        /\ \A v \in BOOLEAN :
              /\ RewrittenCall.target.right = ArmCall(v).target.right
              /\ RewrittenCall.params[1].value = ArmCall(v).params[1].value
        /\ RewrittenCall.target = ArmCall(TRUE).target
        /\ kwargs_of(RewrittenCall.params, <<>>) = kwargs_of(ArmCall(TRUE).params, <<>>)

\* C36: a rewritten conditional whose arms call the method on different receivers
C36_ReceiversDiffer ==
    MethodCallRewritten /\ ArmCall(TRUE).target.target # ArmCall(FALSE).target.target

RECURSIVE ReachableFrom(_, _)
\* the blocks reachable from a set of blocks along bb_out
ReachableFrom(bb_out, S) ==
    IF \A b \in S : Range(bb_out[b]) \subseteq S THEN S
    ELSE ReachableFrom(bb_out, S \cup UNION {Range(bb_out[b]) : b \in S})

\* some block reachable from the ability lies on a cycle
HasCycle(bb_out) ==
    \E b \in ReachableFrom(bb_out, {AbilityBlock}) :
        b \in ReachableFrom(bb_out, Range(bb_out[b]))

\* some block is the successor of two blocks, or twice of one
HasSharedSucc(bb_out) ==
    \E b \in Blocks : \E c, d \in ReachableFrom(bb_out, {AbilityBlock}) :
        /\ b \in Range(bb_out[c]) /\ b \in Range(bb_out[d])
        /\ c # d \/ bb_out[c] = <<b, b>>

\* C37: the walk over an ability's control-flow graph terminates for every finite
\* graph, cycles and shared successors included: run_analysis eventually returns
C37_RunAnalysisReturns == <>(last.op = "returned")

\* C37 (the part that holds): on a graph without a cycle run_analysis returns
C37_ReturnsWithoutCycle == ~HasCycle(last.bb_out) => <>(last.op = "returned")

\* C37 (the part that holds): every statement is flagged at most once, and the walk
\* ends in an error exactly on graphs with a cycle
C37_FlaggedAtMostOnce ==
    /\ \A b \in Blocks : last.has_break_se[b] + last.has_break_dyn_cf[b] <= 1
    /\ last.op = "RecursionError" => HasCycle(last.bb_out)
    /\ last.op = "returned" => ~HasCycle(last.bb_out)

\* C37: the walk over a graph with a loop back-edge ended in a RecursionError
C37_CycleOverflows == last.op = "RecursionError" /\ HasCycle(last.bb_out)

\* C37: the walk returned on a graph with a shared successor, visited more than once
C37_SharedSuccReturned ==
    /\ last.op = "returned" /\ HasSharedSucc(last.bb_out)
    /\ last.visits > Cardinality(ReachableFrom(last.bb_out, {AbilityBlock}))
    /\ \E b \in Blocks : last.has_break_se[b] = 1

====
